------------------------------ MODULE Spec2Model ------------------------------
(***************************************************************************)
(* CodeFlow: the flow-graph builders (src/parsers), the analysis           *)
(* orchestrator and the Mermaid renderer (src/app.py) as a state machine.  *)
(*                                                                         *)
(* Text is modelled as a sequence of one-character strings, so that the    *)
(* substring tests, replacements and f-string formatting of the source     *)
(* are computed and not assumed.  Python lists are objects on a heap       *)
(* (`heap`), because the parsers rebind self.nodes / self.edges on every   *)
(* parse and hand the list objects themselves to the caller.               *)
(***************************************************************************)
EXTENDS Integers, Sequences, FiniteSets, TLC

VARIABLES
    parsers,    \* parsers[a][lang]: the parser objects of CodeFlowApp instance a
    heap,       \* heap[r]: the Python list object with reference r
    stack,      \* stack[t]: the call stack of thread t, top frame last
    ret,        \* ret[t]: the value returned by the call that just ended in thread t
    fs,         \* the file system: what open(path) or os.walk(path) gives
    todo,       \* todo[t]: the calls thread t still has to make
    results,    \* results[t]: what the calls of thread t returned, in order
    hashseed,   \* hashseed[a]: the str hash seed of the interpreter running app a
    sched       \* the scheduler: running thread and preemptions left

vars == <<parsers, heap, stack, ret, fs, todo, results, hashseed, sched>>

-----------------------------------------------------------------------------
(* Text *)

Digit == <<"0", "1", "2", "3", "4", "5", "6", "7", "8", "9">>

\* str(n) for n >= 0, as in f"node_{self.node_counter}"
RECURSIVE DecStr(_)
DecStr(n) ==
    IF n < 10 THEN <<Digit[n + 1]>>
    ELSE DecStr(n \div 10) \o <<Digit[(n % 10) + 1]>>

\* Python's `pattern in text`
Contains(text, pattern) ==
    \E i \in 0..(Len(text) - Len(pattern)) :
        SubSeq(text, i + 1, i + Len(pattern)) = pattern

\* Python's text.startswith(prefix)
StartsWith(text, prefix) ==
    /\ Len(prefix) <= Len(text)
    /\ SubSeq(text, 1, Len(prefix)) = prefix

\* Python's text.endswith(suffix)
EndsWith(text, suffix) ==
    /\ Len(suffix) <= Len(text)
    /\ SubSeq(text, Len(text) - Len(suffix) + 1, Len(text)) = suffix

UpperChars == <<"A", "B", "C", "D", "E", "F", "G", "H", "I", "J", "K", "L", "M",
                "N", "O", "P", "Q", "R", "S", "T", "U", "V", "W", "X", "Y", "Z">>
LowerChars == <<"a", "b", "c", "d", "e", "f", "g", "h", "i", "j", "k", "l", "m",
                "n", "o", "p", "q", "r", "s", "t", "u", "v", "w", "x", "y", "z">>

LowerChar(c) ==
    IF \E i \in 1..26 : UpperChars[i] = c
    THEN LowerChars[CHOOSE i \in 1..26 : UpperChars[i] = c]
    ELSE c

\* Python's text.lower()
Lower(text) == [i \in 1..Len(text) |-> LowerChar(text[i])]

\* Python's None where a text (an id, a label, a regex group) is expected
None == <<"None">>

\* a value that is no text where a text is expected: a number in the request's JSON
Number == <<"int">>
IsText(v) == v # None /\ v # Number

\* None where a syntax-tree node or another object is expected
NoneNode == [cls |-> "NoneType"]

-----------------------------------------------------------------------------
(* The syntax trees ast.parse returns (the node classes the builder reads) *)

Name(id) == [cls |-> "Name", id |-> id]
Constant(text) == [cls |-> "Constant", text |-> text]
Attribute(value, attr) == [cls |-> "Attribute", value |-> value, attr |-> attr]
Call(func) == [cls |-> "Call", func |-> func]
Pass == [cls |-> "Pass"]
Expr(value) == [cls |-> "Expr", value |-> value]
Return(value) == [cls |-> "Return", value |-> value]
Assign(targets, value) == [cls |-> "Assign", targets |-> targets, value |-> value]
If(test, body, orelse) == [cls |-> "If", test |-> test, body |-> body, orelse |-> orelse]
For(target, iter, body) == [cls |-> "For", target |-> target, iter |-> iter, body |-> body]
While(test, body) == [cls |-> "While", test |-> test, body |-> body]
ExceptHandler(body) == [cls |-> "ExceptHandler", body |-> body]
Try(body, handlers) == [cls |-> "Try", body |-> body, handlers |-> handlers]
FunctionDef(name, body) == [cls |-> "FunctionDef", name |-> name, body |-> body]
Module(body) == [cls |-> "Module", body |-> body]

\* isinstance(node, ast.<cls>)
IsInstance(node, cls) == node.cls = cls

\* ast.unparse(expr)
RECURSIVE Unparse(_)
Unparse(e) ==
    CASE e.cls = "Name" -> e.id
      [] e.cls = "Constant" -> e.text
      [] e.cls = "Attribute" -> Unparse(e.value) \o <<".">> \o e.attr
      [] e.cls = "Call" -> Unparse(e.func) \o <<"(", ")">>

\* ast.iter_child_nodes(node): the child nodes in field order
IterChildNodes(n) ==
    CASE n.cls = "Module" -> n.body
      [] n.cls = "FunctionDef" -> n.body
      [] n.cls = "If" -> <<n.test>> \o n.body \o n.orelse
      [] n.cls = "For" -> <<n.target, n.iter>> \o n.body
      [] n.cls = "While" -> <<n.test>> \o n.body
      [] n.cls = "Try" -> n.body \o n.handlers
      [] n.cls = "ExceptHandler" -> n.body
      [] n.cls = "Return" -> IF n.value = NoneNode THEN <<>> ELSE <<n.value>>
      [] n.cls = "Expr" -> <<n.value>>
      [] n.cls = "Assign" -> n.targets \o <<n.value>>
      [] n.cls = "Call" -> <<n.func>>
      [] n.cls = "Attribute" -> <<n.value>>
      [] OTHER -> <<>>

\* ast.walk(node): breadth first, the node itself first
RECURSIVE WalkQueue(_)
WalkQueue(queue) ==
    IF queue = <<>> THEN <<>>
    ELSE <<Head(queue)>> \o WalkQueue(Tail(queue) \o IterChildNodes(Head(queue)))

Walk(node) == WalkQueue(<<node>>)

\* [f(x) for x in seq]
MapSeq(seq, f(_)) == [i \in 1..Len(seq) |-> f(seq[i])]

\* the name process_function_call and extract_function_calls give a call
ResolvedName(func) ==
    Unparse(func.value) \o <<".">> \o func.attr

extract_function_calls(func_node) ==
    LET found == SelectSeq(Walk(func_node),
                     LAMBDA n : /\ IsInstance(n, "Call")
                                /\ n.func.cls \in {"Name", "Attribute"})
        name(n) == IF IsInstance(n.func, "Name") THEN n.func.id
                   ELSE ResolvedName(n.func)
    IN  MapSeq(found, name)

collect_functions(tree) ==
    LET defs == SelectSeq(Walk(tree), LAMBDA n : IsInstance(n, "FunctionDef"))
        info(n) == [name |-> n.name, node |-> n, calls |-> extract_function_calls(n)]
    IN  MapSeq(defs, info)

is_main_function_call(tree, func_name) ==
    \E i \in 1..Len(tree.body) :
        LET node == tree.body[i] IN
        /\ IsInstance(node, "Expr")
        /\ IsInstance(node.value, "Call")
        /\ IsInstance(node.value.func, "Name")
        /\ node.value.func.id = func_name

MaxConditionLen == 50

get_condition_text(test_node) ==
    LET condition == Unparse(test_node) IN
    IF Len(condition) > MaxConditionLen
    THEN SubSeq(condition, 1, MaxConditionLen) \o <<".", ".", ".">>
    ELSE condition

important_patterns_assignment ==
    {<<"r", "e", "s", "u", "l", "t">>, <<"o", "u", "t", "p", "u", "t">>, <<"d", "a", "t", "a">>, <<"c", "o", "n", "f", "i", "g">>, <<"c", "o", "n", "n", "e", "c", "t", "i", "o", "n">>}

is_important_assignment(var_name, value) ==
    \E pattern \in important_patterns_assignment : Contains(Lower(var_name), pattern)

-----------------------------------------------------------------------------
(* The inputs: source texts, by what ast.parse and str.split make of them *)

\* the outcome of ast.parse(code_content) on a text that does not parse
SyntaxError == [cls |-> "SyntaxError"]
\* ast.parse raises TypeError when the code is not a text (a number in the
\* request's JSON)
TypeError == [cls |-> "TypeError"]

MaxStmts == 3

LeafStmts ==
    { Return(NoneNode),
      Expr(Call(Name(<<"f">>))),
      Assign(<<Name(<<"x">>)>>, Call(Name(<<"g">>))),
      Assign(<<Name(<<"r", "e", "s", "u", "l", "t">>)>>, Constant(<<"1">>)),
      Assign(<<Name(<<"n">>)>>, Constant(<<"1">>)) }

FuncNames == {<<"f">>, <<"g">>}

RECURSIVE StmtsOfSize(_), BodiesOfSize(_)
\* the statements made of exactly n statement nodes
StmtsOfSize(n) ==
    IF n = 1 THEN LeafStmts
    ELSE LET test == Name(<<"c">>)
             split == 1..(n - 2)
         IN  {If(test, b, <<>>) : b \in BodiesOfSize(n - 1)}
             \cup UNION {{If(test, b, e) : b \in BodiesOfSize(k), e \in BodiesOfSize(n - 1 - k)} : k \in split}
             \cup {For(Name(<<"i">>), Name(<<"x", "s">>), b) : b \in BodiesOfSize(n - 1)}
             \cup {While(test, b) : b \in BodiesOfSize(n - 1)}
             \cup {Try(b, <<>>) : b \in BodiesOfSize(n - 1)}
             \cup UNION {{Try(b, <<ExceptHandler(e)>>) : b \in BodiesOfSize(k), e \in BodiesOfSize(n - 1 - k)} : k \in split}
             \cup {FunctionDef(name, b) : name \in FuncNames, b \in BodiesOfSize(n - 1)}

\* the non-empty statement lists made of exactly n statement nodes
BodiesOfSize(n) ==
    {<<s>> : s \in StmtsOfSize(n)}
    \cup UNION {{<<s>> \o b : s \in StmtsOfSize(k), b \in BodiesOfSize(n - k)} : k \in 1..(n - 1)}

\* the modules of at most n statements (the empty file included)
ModulesUpTo(n) ==
    {Module(<<>>)} \cup UNION {{Module(b) : b \in BodiesOfSize(k)} : k \in 1..n}

-----------------------------------------------------------------------------
(* Paths and language detection (CodeFlowApp.detect_language) *)

\* text.rfind(c), counted from 1; 0 when c does not occur
RFind(text, c) ==
    IF \E i \in 1..Len(text) : text[i] = c
    THEN CHOOSE i \in 1..Len(text) : text[i] = c /\ \A j \in (i + 1)..Len(text) : text[j] # c
    ELSE 0

\* os.path.splitext(path)[1]: from the last dot of the last component, unless
\* only dots precede it there
SplitExt(path) ==
    LET sepIndex == RFind(path, "/")
        dotIndex == RFind(path, ".")
    IN  IF /\ dotIndex > sepIndex
           /\ \E k \in (sepIndex + 1)..(dotIndex - 1) : path[k] # "."
        THEN SubSeq(path, dotIndex, Len(path))
        ELSE <<>>

\* detect_language's None
NoLanguage == "None"

PythonExts == {<<".", "p", "y">>}
CppExts == {<<".", "c", "p", "p">>, <<".", "c">>, <<".", "c", "c">>, <<".", "c", "x", "x">>, <<".", "h">>, <<".", "h", "p", "p">>}
TypeScriptExts == {<<".", "t", "s">>, <<".", "j", "s">>, <<".", "t", "s", "x">>, <<".", "j", "s", "x">>}

detect_language(file_path) ==
    LET ext == Lower(SplitExt(file_path)) IN
    IF ext \in PythonExts THEN "python"
    ELSE IF ext \in CppExts THEN "cpp"
    ELSE IF ext \in TypeScriptExts THEN "typescript"
    ELSE NoLanguage

Languages == {"python", "cpp", "typescript"}

-----------------------------------------------------------------------------
(* Objects: the parsers of each CodeFlowApp, and the list objects they hold *)

Threads == DOMAIN stack
Apps == DOMAIN parsers

Nodes(self) == heap[parsers[self[1]][self[2]].nodes]
Edges(self) == heap[parsers[self[1]][self[2]].edges]

\* the lists a flow_data dict refers to, as they are now
NodesOf(flow_data) == heap[flow_data.nodes]
EdgesOf(flow_data) == heap[flow_data.edges]

\* CodeFlowApp.__init__ and the three parsers' __init__, for n apps: every
\* parser starts with two list objects of its own
NewParsers(n) ==
    [a \in 1..n |->
        [lang \in Languages |->
            LET k == CASE lang = "python" -> 0 [] lang = "cpp" -> 1 [] lang = "typescript" -> 2
                base == 6 * (a - 1) + 2 * k
            IN  [node_counter |-> 0, nodes |-> base + 1, edges |-> base + 2]]]

NewHeap(n) == [r \in 1..(6 * n) |-> <<>>]

-----------------------------------------------------------------------------
(* Threads: call stacks and scheduling *)

Top(t) == stack[t][Len(stack[t])]
Below(t) == SubSeq(stack[t], 1, Len(stack[t]) - 1)
\* the top frame replaced
With(t, frame) == Below(t) \o <<frame>>
\* the top frame replaced and a call made from it
WithCall(t, frame, callee) == Below(t) \o <<frame, callee>>
At(t, fn) == stack[t] # <<>> /\ Top(t).fn = fn

Busy(t) == stack[t] # <<>> \/ todo[t] # <<>>

RECURSIVE DropDone(_)
DropDone(first) ==
    IF first # <<>> /\ ~Busy(Head(first)) THEN DropDone(Tail(first)) ELSE first

\* Thread t takes the next step.  The threads of sched.first run first, one
\* after the other (the runs the others are compared with); after that a
\* thread runs until it ends, or is preempted while preemptions are left.
Schedule(t) ==
    LET first == DropDone(sched.first) IN
    IF first # <<>>
    THEN /\ t = Head(first)
         /\ sched' = [sched EXCEPT !.first = first, !.running = t]
    ELSE \/ /\ IF sched.running \in {0, t} THEN TRUE ELSE ~Busy(sched.running)
            /\ sched' = [sched EXCEPT !.first = first, !.running = t]
         \/ /\ sched.running \notin {0, t}
            /\ Busy(sched.running)
            /\ sched.preemptions > 0
            /\ sched' = [first |-> first, running |-> t,
                         preemptions |-> sched.preemptions - 1]

\* a step of thread t that changes its stack, the heap and its return value
Step(t, newStack, newHeap, newRet) ==
    /\ Schedule(t)
    /\ stack' = [stack EXCEPT ![t] = newStack]
    /\ heap' = newHeap
    /\ ret' = [ret EXCEPT ![t] = newRet]

\* self.edges.append(edge)
AppendEdge(self, edge) ==
    [heap EXCEPT ![parsers[self[1]][self[2]].edges] = Append(@, edge)]

Edge(from, to) == [from |-> from, to |-> to]
LabelledEdge(from, to, label) == [from |-> from, to |-> to, label |-> label]

-----------------------------------------------------------------------------
(* create_node (the same method in the three parsers) *)

\* Python's truth value of an id: None and '' are false
Truthy(v) == v # None /\ v # <<>>

\* fault model: the id is formed after the counter is incremented
NodeId_AfterIncrement(counter) == <<"n", "o", "d", "e", "_">> \o DecStr(counter + 1)

\* f"node_{self.node_counter}"
NodeId(counter) == <<"n", "o", "d", "e", "_">> \o DecStr(counter)

CreateNodeFrame(self, label, node_type, parent_id) ==
    [fn |-> "create_node", pc |-> "append", self |-> self, label |-> label,
     node_type |-> node_type, parent_id |-> parent_id, node_id |-> None]

\* the dict create_node appends to self.nodes
NewNode(node_id, label, node_type) ==
    [id |-> node_id, label |-> label, type |-> node_type]

\* the edge create_node appends when it is given a parent
ParentEdge(parent_id, node_id) == Edge(parent_id, node_id)

create_node(t) ==
    /\ At(t, "create_node")
    /\ LET f == Top(t)
           p == parsers[f.self[1]][f.self[2]]
       IN  \/ /\ f.pc = "append"
              /\ LET node_id == NodeId(p.node_counter) IN
                 /\ parsers' = [parsers EXCEPT ![f.self[1]][f.self[2]].node_counter = @ + 1]
                 /\ Step(t, With(t, [f EXCEPT !.pc = "link", !.node_id = node_id]),
                         [heap EXCEPT ![p.nodes] = Append(@, NewNode(node_id, f.label, f.node_type))],
                         ret[t])
           \/ /\ f.pc = "link"
              /\ UNCHANGED parsers
              /\ Step(t, Below(t),
                      IF Truthy(f.parent_id)
                      THEN AppendEdge(f.self, ParentEdge(f.parent_id, f.node_id))
                      ELSE heap,
                      f.node_id)
    /\ UNCHANGED <<fs, todo, results, hashseed>>

-----------------------------------------------------------------------------
(* EnhancedPythonParser: the statement walker *)

ProcessStatementFrame(self, stmt, parent_id) ==
    [fn |-> "process_statement", self |-> self, stmt |-> stmt, parent_id |-> parent_id]

\* for child_stmt in body: cursor = self.process_statement(child_stmt, cursor)
\* about to take element i; the frame's pc is loop_pc while a call is out
Iterate(t, f, body, i, cursor, loop_pc, after_pc) ==
    IF i <= Len(body)
    THEN WithCall(t, [f EXCEPT !.pc = loop_pc, !.i = i],
                  ProcessStatementFrame(f.self, body[i], cursor))
    ELSE With(t, [f EXCEPT !.pc = after_pc])

\* the handler process_statement hands a statement to; "skip" when it has none.
\* A call used as a statement is an ast.Expr holding the ast.Call.
Dispatch(stmt) ==
    IF IsInstance(stmt, "If") THEN "process_if_statement"
    ELSE IF IsInstance(stmt, "For") THEN "process_for_loop"
    ELSE IF IsInstance(stmt, "While") THEN "process_while_loop"
    ELSE IF IsInstance(stmt, "Try") THEN "process_try_statement"
    ELSE IF IsInstance(stmt, "Return") THEN "process_return_statement"
    ELSE IF IsInstance(stmt, "Call") THEN "process_function_call"
    ELSE IF IsInstance(stmt, "Assign") THEN "process_assignment"
    ELSE "skip"

HandlerFrame(fn, self, stmt, parent_id) ==
    CASE fn = "process_if_statement" ->
            [fn |-> fn, pc |-> "start", self |-> self, stmt |-> stmt, parent_id |-> parent_id,
             if_id |-> None, if_body_start |-> None, if_body_end |-> None,
             else_body_start |-> None, else_body_end |-> None, merge_id |-> None, i |-> 0]
      [] fn \in {"process_for_loop", "process_while_loop"} ->
            [fn |-> fn, pc |-> "start", self |-> self, stmt |-> stmt, parent_id |-> parent_id,
             loop_start |-> None, loop_body_start |-> None, loop_body_end |-> None,
             loop_exit |-> None, i |-> 0]
      [] fn = "process_try_statement" ->
            [fn |-> fn, pc |-> "start", self |-> self, stmt |-> stmt, parent_id |-> parent_id,
             try_id |-> None, try_body_end |-> None, except_id |-> None,
             except_body_end |-> None, merge_id |-> None, h |-> 0, i |-> 0]
      [] OTHER ->
            [fn |-> fn, pc |-> "start", self |-> self, stmt |-> stmt, parent_id |-> parent_id]

process_statement(t) ==
    /\ At(t, "process_statement")
    /\ LET f == Top(t)
           fn == Dispatch(f.stmt)
       IN  \/ /\ fn # "skip"
              /\ Step(t, With(t, HandlerFrame(fn, f.self, f.stmt, f.parent_id)), heap, ret[t])
           \/ /\ fn = "skip"
              /\ Step(t, Below(t), heap, f.parent_id)
    /\ UNCHANGED <<parsers, fs, todo, results, hashseed>>

\* the text process_function_call puts between "Call: " and "()"
CallName(call) ==
    IF IsInstance(call.func, "Name") THEN call.func.id
    ELSE IF IsInstance(call.func, "Attribute") THEN ResolvedName(call.func)
    ELSE <<"f", "u", "n", "c", "t", "i", "o", "n">>

\* the node process_function_call creates for a call
CallNodeKind == "function"
CallNodeLabel(call) == <<"C", "a", "l", "l", ":", " ">> \o CallName(call) \o <<"(", ")">>

process_function_call(t) ==
    /\ At(t, "process_function_call")
    /\ LET f == Top(t) IN
       Step(t, With(t, CreateNodeFrame(f.self, CallNodeLabel(f.stmt), CallNodeKind, f.parent_id)),
            heap, ret[t])
    /\ UNCHANGED <<parsers, fs, todo, results, hashseed>>

process_assignment(t) ==
    /\ At(t, "process_assignment")
    /\ LET f == Top(t)
           stmt == f.stmt
           named == Len(stmt.targets) = 1 /\ IsInstance(stmt.targets[1], "Name")
           var_name == stmt.targets[1].id
       IN  \/ /\ named
              /\ IsInstance(stmt.value, "Call")
              /\ Step(t, With(t, HandlerFrame("process_function_call", f.self, stmt.value, f.parent_id)),
                      heap, ret[t])
           \/ /\ named
              /\ ~IsInstance(stmt.value, "Call")
              /\ is_important_assignment(var_name, stmt.value)
              /\ Step(t, With(t, CreateNodeFrame(f.self, <<"S", "e", "t", " ">> \o var_name, "process", f.parent_id)),
                      heap, ret[t])
           \/ /\ ~(named /\ (IsInstance(stmt.value, "Call")
                             \/ is_important_assignment(var_name, stmt.value)))
              /\ Step(t, Below(t), heap, f.parent_id)
    /\ UNCHANGED <<parsers, fs, todo, results, hashseed>>

ReturnText(stmt) ==
    IF stmt.value # NoneNode THEN <<"R", "e", "t", "u", "r", "n", ":", " ">> \o Unparse(stmt.value) ELSE <<"R", "e", "t", "u", "r", "n">>

process_return_statement(t) ==
    /\ At(t, "process_return_statement")
    /\ LET f == Top(t) IN
       Step(t, With(t, CreateNodeFrame(f.self, ReturnText(f.stmt), "end", f.parent_id)),
            heap, ret[t])
    /\ UNCHANGED <<parsers, fs, todo, results, hashseed>>

\* the edges process_if_statement appends
IfYesEdge(f, if_body_start) == LabelledEdge(f.if_id, if_body_start, "Yes")
IfNoEdge(f, else_body_start) == LabelledEdge(f.if_id, else_body_start, "No")
IfBodyMergeEdge(f, merge_id) == Edge(f.if_body_end, merge_id)
\* fault model: the merge edge leaves the entry of the else-branch, not its tail
IfElseMergeEdge_FromEntry(f) == Edge(f.else_body_start, f.merge_id)
IfElseMergeEdge(f) == Edge(f.else_body_end, f.merge_id)
\* fault model: the edge of the missing else branch carries no label
IfNoElseEdge_Unlabelled(f) == Edge(f.if_id, f.merge_id)
IfNoElseEdge(f) == LabelledEdge(f.if_id, f.merge_id, "No")

process_if_statement(t) ==
    /\ At(t, "process_if_statement")
    /\ LET f == Top(t)
           stmt == f.stmt
           r == ret[t]
       IN  \/ /\ f.pc = "start"
              /\ Step(t, WithCall(t, [f EXCEPT !.pc = "got_if"],
                            CreateNodeFrame(f.self, <<"I", "f", ":", " ">> \o get_condition_text(stmt.test),
                                            "condition", f.parent_id)),
                      heap, r)
           \/ /\ f.pc = "got_if"
              /\ Step(t, WithCall(t, [f EXCEPT !.pc = "got_if_body_start", !.if_id = r],
                            CreateNodeFrame(f.self, <<"I", "f", " ", "T", "r", "u", "e">>, "process", None)),
                      heap, r)
           \/ /\ f.pc = "got_if_body_start"
              /\ Step(t, Iterate(t, [f EXCEPT !.if_body_start = r, !.if_body_end = r],
                                 stmt.body, 1, r, "body", "after_body"),
                      AppendEdge(f.self, IfYesEdge(f, r)), r)
           \/ /\ f.pc = "body"
              /\ Step(t, Iterate(t, [f EXCEPT !.if_body_end = r],
                                 stmt.body, f.i + 1, r, "body", "after_body"),
                      heap, r)
           \/ /\ f.pc = "after_body"
              /\ stmt.orelse # <<>>
              /\ Step(t, WithCall(t, [f EXCEPT !.pc = "got_else_body_start"],
                            CreateNodeFrame(f.self, <<"I", "f", " ", "F", "a", "l", "s", "e">>, "process", None)),
                      heap, r)
           \/ /\ f.pc = "got_else_body_start"
              /\ Step(t, Iterate(t, [f EXCEPT !.else_body_start = r, !.else_body_end = r],
                                 stmt.orelse, 1, r, "orelse", "after_orelse"),
                      AppendEdge(f.self, IfNoEdge(f, r)), r)
           \/ /\ f.pc = "orelse"
              /\ Step(t, Iterate(t, [f EXCEPT !.else_body_end = r],
                                 stmt.orelse, f.i + 1, r, "orelse", "after_orelse"),
                      heap, r)
           \/ /\ f.pc = "after_orelse"
              /\ Step(t, WithCall(t, [f EXCEPT !.pc = "got_merge"],
                            CreateNodeFrame(f.self, <<"C", "o", "n", "t", "i", "n", "u", "e">>, "process", None)),
                      heap, r)
           \/ /\ f.pc = "got_merge"
              /\ Step(t, With(t, [f EXCEPT !.pc = "merge_else", !.merge_id = r]),
                      AppendEdge(f.self, IfBodyMergeEdge(f, r)), r)
           \/ /\ f.pc = "merge_else"
              /\ Step(t, With(t, [f EXCEPT !.pc = "return"]),
                      AppendEdge(f.self, IfElseMergeEdge(f)), r)
           \/ /\ f.pc = "after_body"
              /\ stmt.orelse = <<>>
              /\ Step(t, WithCall(t, [f EXCEPT !.pc = "got_merge_no_else"],
                            CreateNodeFrame(f.self, <<"C", "o", "n", "t", "i", "n", "u", "e">>, "process", None)),
                      heap, r)
           \/ /\ f.pc = "got_merge_no_else"
              /\ Step(t, With(t, [f EXCEPT !.pc = "merge_no", !.merge_id = r]),
                      AppendEdge(f.self, IfBodyMergeEdge(f, r)), r)
           \/ /\ f.pc = "merge_no"
              /\ Step(t, With(t, [f EXCEPT !.pc = "return"]),
                      AppendEdge(f.self, IfNoElseEdge(f)), r)
           \/ /\ f.pc = "return"
              /\ Step(t, Below(t), heap, f.merge_id)
    /\ UNCHANGED <<parsers, fs, todo, results, hashseed>>

\* the edges process_for_loop and process_while_loop append
ForBodyEdge(f, loop_body_start) == LabelledEdge(f.loop_start, loop_body_start, "Each Item")
ForBackEdge(f) == LabelledEdge(f.loop_body_end, f.loop_start, "Next")
ForExitEdge(f, loop_exit) == LabelledEdge(f.loop_start, loop_exit, "Done")
WhileBodyEdge(f, loop_body_start) == LabelledEdge(f.loop_start, loop_body_start, "True")
WhileBackEdge(f) == Edge(f.loop_body_end, f.loop_start)
WhileExitEdge(f, loop_exit) == LabelledEdge(f.loop_start, loop_exit, "False")

\* what process_for_loop returns
ForResult(f) == f.loop_exit
\* fault model: the loop hands back its condition node as the cursor
WhileResult_Condition(f) == f.loop_start
\* what process_while_loop returns
WhileResult(f) == f.loop_exit

process_for_loop(t) ==
    /\ At(t, "process_for_loop")
    /\ LET f == Top(t)
           stmt == f.stmt
           r == ret[t]
       IN  \/ /\ f.pc = "start"
              /\ Step(t, WithCall(t, [f EXCEPT !.pc = "got_loop_start"],
                            CreateNodeFrame(f.self,
                                <<"F", "o", "r", " ">> \o Unparse(stmt.target) \o <<" ", "i", "n", " ">> \o Unparse(stmt.iter),
                                "condition", f.parent_id)),
                      heap, r)
           \/ /\ f.pc = "got_loop_start"
              /\ Step(t, WithCall(t, [f EXCEPT !.pc = "got_loop_body_start", !.loop_start = r],
                            CreateNodeFrame(f.self, <<"L", "o", "o", "p", " ", "B", "o", "d", "y">>, "process", None)),
                      heap, r)
           \/ /\ f.pc = "got_loop_body_start"
              /\ Step(t, Iterate(t, [f EXCEPT !.loop_body_start = r, !.loop_body_end = r],
                                 stmt.body, 1, r, "body", "after_body"),
                      AppendEdge(f.self, ForBodyEdge(f, r)), r)
           \/ /\ f.pc = "body"
              /\ Step(t, Iterate(t, [f EXCEPT !.loop_body_end = r],
                                 stmt.body, f.i + 1, r, "body", "after_body"),
                      heap, r)
           \/ /\ f.pc = "after_body"
              /\ Step(t, WithCall(t, [f EXCEPT !.pc = "got_loop_exit"],
                            CreateNodeFrame(f.self, <<"L", "o", "o", "p", " ", "C", "o", "m", "p", "l", "e", "t", "e">>, "process", None)),
                      AppendEdge(f.self, ForBackEdge(f)), r)
           \/ /\ f.pc = "got_loop_exit"
              /\ Step(t, With(t, [f EXCEPT !.pc = "return", !.loop_exit = r]),
                      AppendEdge(f.self, ForExitEdge(f, r)), r)
           \/ /\ f.pc = "return"
              /\ Step(t, Below(t), heap, ForResult(f))
    /\ UNCHANGED <<parsers, fs, todo, results, hashseed>>

process_while_loop(t) ==
    /\ At(t, "process_while_loop")
    /\ LET f == Top(t)
           stmt == f.stmt
           r == ret[t]
       IN  \/ /\ f.pc = "start"
              /\ Step(t, WithCall(t, [f EXCEPT !.pc = "got_loop_start"],
                            CreateNodeFrame(f.self, <<"W", "h", "i", "l", "e", ":", " ">> \o get_condition_text(stmt.test),
                                            "condition", f.parent_id)),
                      heap, r)
           \/ /\ f.pc = "got_loop_start"
              /\ Step(t, WithCall(t, [f EXCEPT !.pc = "got_loop_body_start", !.loop_start = r],
                            CreateNodeFrame(f.self, <<"L", "o", "o", "p", " ", "B", "o", "d", "y">>, "process", None)),
                      heap, r)
           \/ /\ f.pc = "got_loop_body_start"
              /\ Step(t, Iterate(t, [f EXCEPT !.loop_body_start = r, !.loop_body_end = r],
                                 stmt.body, 1, r, "body", "after_body"),
                      AppendEdge(f.self, WhileBodyEdge(f, r)), r)
           \/ /\ f.pc = "body"
              /\ Step(t, Iterate(t, [f EXCEPT !.loop_body_end = r],
                                 stmt.body, f.i + 1, r, "body", "after_body"),
                      heap, r)
           \/ /\ f.pc = "after_body"
              /\ Step(t, WithCall(t, [f EXCEPT !.pc = "got_loop_exit"],
                            CreateNodeFrame(f.self, <<"L", "o", "o", "p", " ", "E", "x", "i", "t">>, "process", None)),
                      AppendEdge(f.self, WhileBackEdge(f)), r)
           \/ /\ f.pc = "got_loop_exit"
              /\ Step(t, With(t, [f EXCEPT !.pc = "return", !.loop_exit = r]),
                      AppendEdge(f.self, WhileExitEdge(f, r)), r)
           \/ /\ f.pc = "return"
              /\ Step(t, Below(t), heap, WhileResult(f))
    /\ UNCHANGED <<parsers, fs, todo, results, hashseed>>

\* the edges process_try_statement appends
TryErrorEdge(f, except_id) == LabelledEdge(f.try_id, except_id, "Error")
TryBodyMergeEdge(f, merge_id) == Edge(f.try_body_end, merge_id)
TryExceptMergeEdge(f) == Edge(f.except_body_end, f.merge_id)

\* for handler in stmt.handlers: for child_stmt in handler.body: ...
\* about to take statement i of handler h
RECURSIVE IterateHandlers(_, _, _, _, _)
IterateHandlers(t, f, h, i, cursor) ==
    IF h > Len(f.stmt.handlers)
    THEN With(t, [f EXCEPT !.pc = "after_handlers"])
    ELSE IF i <= Len(f.stmt.handlers[h].body)
    THEN WithCall(t, [f EXCEPT !.pc = "handlers", !.h = h, !.i = i],
                  ProcessStatementFrame(f.self, f.stmt.handlers[h].body[i], cursor))
    ELSE IterateHandlers(t, f, h + 1, 1, cursor)

process_try_statement(t) ==
    /\ At(t, "process_try_statement")
    /\ LET f == Top(t)
           stmt == f.stmt
           r == ret[t]
       IN  \/ /\ f.pc = "start"
              /\ Step(t, WithCall(t, [f EXCEPT !.pc = "got_try"],
                            CreateNodeFrame(f.self, <<"T", "r", "y", " ", "B", "l", "o", "c", "k">>, "process", f.parent_id)),
                      heap, r)
           \/ /\ f.pc = "got_try"
              /\ Step(t, Iterate(t, [f EXCEPT !.try_id = r, !.try_body_end = r],
                                 stmt.body, 1, r, "body", "after_body"),
                      heap, r)
           \/ /\ f.pc = "body"
              /\ Step(t, Iterate(t, [f EXCEPT !.try_body_end = r],
                                 stmt.body, f.i + 1, r, "body", "after_body"),
                      heap, r)
           \/ /\ f.pc = "after_body"
              /\ stmt.handlers # <<>>
              /\ Step(t, WithCall(t, [f EXCEPT !.pc = "got_except"],
                            CreateNodeFrame(f.self, <<"E", "x", "c", "e", "p", "t", "i", "o", "n", " ", "H", "a", "n", "d", "l", "e", "r">>, "process", None)),
                      heap, r)
           \/ /\ f.pc = "got_except"
              /\ Step(t, IterateHandlers(t, [f EXCEPT !.except_id = r, !.except_body_end = r], 1, 1, r),
                      AppendEdge(f.self, TryErrorEdge(f, r)), r)
           \/ /\ f.pc = "handlers"
              /\ Step(t, IterateHandlers(t, [f EXCEPT !.except_body_end = r], f.h, f.i + 1, r),
                      heap, r)
           \/ /\ f.pc = "after_handlers"
              /\ Step(t, WithCall(t, [f EXCEPT !.pc = "got_merge"],
                            CreateNodeFrame(f.self, <<"C", "o", "n", "t", "i", "n", "u", "e">>, "process", None)),
                      heap, r)
           \/ /\ f.pc = "got_merge"
              /\ Step(t, With(t, [f EXCEPT !.pc = "merge_except", !.merge_id = r]),
                      AppendEdge(f.self, TryBodyMergeEdge(f, r)), r)
           \/ /\ f.pc = "merge_except"
              /\ Step(t, With(t, [f EXCEPT !.pc = "return"]),
                      AppendEdge(f.self, TryExceptMergeEdge(f)), r)
           \/ /\ f.pc = "return"
              /\ Step(t, Below(t), heap, f.merge_id)
           \/ /\ f.pc = "after_body"
              /\ stmt.handlers = <<>>
              /\ Step(t, Below(t), heap, f.try_body_end)
    /\ UNCHANGED <<parsers, fs, todo, results, hashseed>>

-----------------------------------------------------------------------------
(* EnhancedPythonParser: function flows, main flow, call edges, parse *)

create_function_body_flow(t) ==
    /\ At(t, "create_function_body_flow")
    /\ LET f == Top(t)
           r == ret[t]
       IN  \/ /\ f.pc = "start"
              /\ Step(t, Iterate(t, [f EXCEPT !.current_id = f.func_start_id],
                                 f.func_node.body, 1, f.func_start_id, "body", "return"),
                      heap, r)
           \/ /\ f.pc = "body"
              /\ Step(t, Iterate(t, [f EXCEPT !.current_id = r],
                                 f.func_node.body, f.i + 1, r, "body", "return"),
                      heap, r)
           \/ /\ f.pc = "return"
              /\ Step(t, Below(t), heap, f.current_id)
    /\ UNCHANGED <<parsers, fs, todo, results, hashseed>>

\* the dict function_nodes after function_nodes[name] = func_id
DictSet(dict, key, value) == (key :> value) @@ dict

EmptyDict == [k \in {} |-> None]

\* the edge create_function_flows appends for a function called at module level
MainCallEdge(f) == Edge(f.last_main_id, f.func_id)

\* the parent create_function_flows gives the node of a function
FunctionNodeParent(f) == None

\* for func in functions: about to take functions[i]
NextFunction(t, f, i) ==
    IF i <= Len(f.functions)
    THEN WithCall(t, [f EXCEPT !.pc = "got_func", !.i = i],
                  CreateNodeFrame(f.self, <<"F", "u", "n", "c", "t", "i", "o", "n", ":", " ">> \o f.functions[i].name, "function",
                                  FunctionNodeParent(f)))
    ELSE WithCall(t, [f EXCEPT !.pc = "got_end"],
                  CreateNodeFrame(f.self, <<"P", "r", "o", "g", "r", "a", "m", " ", "E", "n", "d">>, "end", f.last_main_id))

create_function_flows(t) ==
    /\ At(t, "create_function_flows")
    /\ LET f == Top(t)
           r == ret[t]
       IN  \/ /\ f.pc = "start"
              /\ Step(t, WithCall(t, [f EXCEPT !.pc = "got_main"],
                            CreateNodeFrame(f.self, <<"P", "r", "o", "g", "r", "a", "m", " ", "S", "t", "a", "r", "t">>, "start", None)),
                      heap, r)
           \/ /\ f.pc = "got_main"
              /\ Step(t, NextFunction(t, [f EXCEPT !.main_id = r, !.last_main_id = r,
                                                   !.function_nodes = EmptyDict], 1),
                      heap, r)
           \/ /\ f.pc = "got_func"
              /\ LET func == f.functions[f.i] IN
                 Step(t, WithCall(t, [f EXCEPT !.pc = "got_body", !.func_id = r,
                                               !.function_nodes = DictSet(@, func.name, r)],
                            [fn |-> "create_function_body_flow", pc |-> "start", self |-> f.self,
                             func_node |-> func.node, func_start_id |-> r,
                             current_id |-> None, i |-> 0]),
                      heap, r)
           \/ /\ f.pc = "got_body"
              /\ is_main_function_call(f.tree, f.functions[f.i].name)
              /\ Step(t, NextFunction(t, [f EXCEPT !.last_func_id = r, !.last_main_id = r], f.i + 1),
                      AppendEdge(f.self, MainCallEdge(f)), r)
           \/ /\ f.pc = "got_body"
              /\ ~is_main_function_call(f.tree, f.functions[f.i].name)
              /\ Step(t, NextFunction(t, [f EXCEPT !.last_func_id = r], f.i + 1),
                      heap, r)
           \/ /\ f.pc = "got_end"
              /\ Step(t, WithCall(t, [f EXCEPT !.pc = "return"],
                            [fn |-> "add_function_call_edges", self |-> f.self,
                             functions |-> f.functions, function_nodes |-> f.function_nodes,
                             i |-> 1, j |-> 1]),
                      heap, r)
           \/ /\ f.pc = "return"
              /\ Step(t, Below(t), heap, None)
    /\ UNCHANGED <<parsers, fs, todo, results, hashseed>>

\* the edge add_function_call_edges appends for a call of func to a function
\* fault model: the edge is given the called function's name, not its node's id
CallsEdge_ToName(function_nodes, func, call) ==
    [from |-> function_nodes[func.name], to |-> call,
     label |-> "calls", style |-> "dotted"]

CallsEdge(function_nodes, func, call) ==
    [from |-> function_nodes[func.name], to |-> function_nodes[call],
     label |-> "calls", style |-> "dotted"]

\* one turn of the inner loop: the j-th call of the i-th function
add_function_call_edges(t) ==
    /\ At(t, "add_function_call_edges")
    /\ LET f == Top(t)
           r == ret[t]
       IN  \/ /\ f.i > Len(f.functions)
              /\ Step(t, Below(t), heap, None)
           \/ /\ f.i <= Len(f.functions)
              /\ LET func == f.functions[f.i] IN
                 \/ /\ \/ func.name \notin DOMAIN f.function_nodes
                       \/ f.j > Len(func.calls)
                    /\ Step(t, With(t, [f EXCEPT !.i = f.i + 1, !.j = 1]), heap, r)
                 \/ /\ func.name \in DOMAIN f.function_nodes
                    /\ f.j <= Len(func.calls)
                    /\ func.calls[f.j] \in DOMAIN f.function_nodes
                    /\ Step(t, With(t, [f EXCEPT !.j = f.j + 1]),
                            AppendEdge(f.self, CallsEdge(f.function_nodes, func, func.calls[f.j])), r)
                 \/ /\ func.name \in DOMAIN f.function_nodes
                    /\ f.j <= Len(func.calls)
                    /\ func.calls[f.j] \notin DOMAIN f.function_nodes
                    /\ Step(t, With(t, [f EXCEPT !.j = f.j + 1]), heap, r)
    /\ UNCHANGED <<parsers, fs, todo, results, hashseed>>

\* for stmt in tree.body: if not isinstance(stmt, ast.FunctionDef): ...
\* about to take tree.body[i]
RECURSIVE NextMainStmt(_, _, _, _)
NextMainStmt(t, f, i, cursor) ==
    IF i > Len(f.tree.body)
    THEN WithCall(t, [f EXCEPT !.pc = "return"],
                  CreateNodeFrame(f.self, <<"S", "c", "r", "i", "p", "t", " ", "E", "n", "d">>, "end", cursor))
    ELSE IF ~IsInstance(f.tree.body[i], "FunctionDef")
    THEN WithCall(t, [f EXCEPT !.pc = "body", !.i = i],
                  ProcessStatementFrame(f.self, f.tree.body[i], cursor))
    ELSE NextMainStmt(t, f, i + 1, cursor)

create_main_flow(t) ==
    /\ At(t, "create_main_flow")
    /\ LET f == Top(t)
           r == ret[t]
       IN  \/ /\ f.pc = "start"
              /\ Step(t, WithCall(t, [f EXCEPT !.pc = "got_start"],
                            CreateNodeFrame(f.self, <<"S", "c", "r", "i", "p", "t", " ", "S", "t", "a", "r", "t">>, "start", None)),
                      heap, r)
           \/ /\ f.pc = "got_start"
              /\ Step(t, NextMainStmt(t, [f EXCEPT !.start_id = r, !.current_id = r], 1, r),
                      heap, r)
           \/ /\ f.pc = "body"
              /\ Step(t, NextMainStmt(t, [f EXCEPT !.current_id = r], f.i + 1, r), heap, r)
           \/ /\ f.pc = "return"
              /\ Step(t, Below(t), heap, None)
    /\ UNCHANGED <<parsers, fs, todo, results, hashseed>>

-----------------------------------------------------------------------------
(* EnhancedPythonParser.parse *)

\* a source text, by what ast.parse makes of it
PySource(ast) == [ast |-> ast]
AstParse(code_content) == code_content.ast

\* fault model: parse sets the counter back and keeps its two lists
ResetParser_KeepLists(self) ==
    [parsers EXCEPT ![self[1]][self[2]].node_counter = 0]

\* the two list objects a parse call creates: self.nodes = [], self.edges = []
ResetParser(self) ==
    [parsers EXCEPT ![self[1]][self[2]] =
        [node_counter |-> 0, nodes |-> Len(heap) + 1, edges |-> Len(heap) + 2]]
ResetHeap == heap \o <<<<>>, <<>>>>

\* the dict EnhancedPythonParser.parse returns
PythonFlowData(self, f) ==
    [nodes |-> parsers[self[1]][self[2]].nodes,
     edges |-> parsers[self[1]][self[2]].edges,
     file_path |-> f.file_path,
     functions |-> MapSeq(f.functions, LAMBDA func : func.name)]

\* an exception leaves parse: the try of analyze_code, the caller, catches it
Raise(t, message) ==
    LET caller == stack[t][Len(stack[t]) - 1] IN
    SubSeq(stack[t], 1, Len(stack[t]) - 2) \o <<[caller EXCEPT !.pc = "except", !.e = message]>>

ParseFrame(self, code_content, file_path) ==
    [fn |-> IF self[2] = "python" THEN "parse" ELSE "line_parse",
     pc |-> "reset", self |-> self, code_content |-> code_content,
     file_path |-> file_path, functions |-> <<>>]

parse(t) ==
    /\ At(t, "parse")
    /\ LET f == Top(t)
           r == ret[t]
           tree == AstParse(f.code_content)
       IN  \/ /\ f.pc = "reset"
              /\ parsers' = ResetParser(f.self)
              /\ Step(t, With(t, [f EXCEPT !.pc = "ast"]), ResetHeap, r)
           \/ /\ f.pc = "ast"
              /\ tree = SyntaxError
              /\ UNCHANGED parsers
              /\ Step(t, Raise(t, "Python syntax error: invalid syntax"), heap, r)
           \/ /\ f.pc = "ast"
              /\ tree = TypeError
              /\ UNCHANGED parsers
              /\ Step(t, Raise(t, "compile() arg 1 must be a string, bytes or AST object"), heap, r)
           \/ /\ f.pc = "ast"
              /\ tree \notin {SyntaxError, TypeError}
              /\ UNCHANGED parsers
              /\ LET functions == collect_functions(tree) IN
                 IF functions # <<>>
                 THEN Step(t, WithCall(t, [f EXCEPT !.pc = "return", !.functions = functions],
                                 [fn |-> "create_function_flows", pc |-> "start", self |-> f.self,
                                  tree |-> tree, functions |-> functions, main_id |-> None,
                                  last_main_id |-> None, function_nodes |-> EmptyDict,
                                  func_id |-> None, last_func_id |-> None, i |-> 0]),
                           heap, r)
                 ELSE Step(t, WithCall(t, [f EXCEPT !.pc = "return", !.functions = functions],
                                 [fn |-> "create_main_flow", pc |-> "start", self |-> f.self,
                                  tree |-> tree, start_id |-> None, current_id |-> None, i |-> 0]),
                           heap, r)
           \/ /\ f.pc = "return"
              /\ UNCHANGED parsers
              /\ Step(t, Below(t), heap, PythonFlowData(f.self, f))
    /\ UNCHANGED <<fs, todo, results, hashseed>>

-----------------------------------------------------------------------------
(* CppParser and TypeScriptParser: the line scanners *)

\* A line of source text, with what the regular expressions of parse_lines
\* find in it (computed with Python's re on the text):
\*   cpp_def     re.match(r'\w+\s+\w+\s*\([^)]*\)\s*{', line)
\*   call_name   group 1 of re.search(r'(\w+)\s*\([^)]*\)', line)
\*   ts_def      re.match(r'(function\s+\w+|const\s+\w+\s*=\s*\([^)]*\)\s*=>|\w+\s*\([^)]*\)\s*{)', line)
\*   ts_name     group 2, 3 or 4 of re.search(r'(function\s+(\w+)|const\s+(\w+)|(\w+)\s*\()', line)
\*   if_cond     group 1 of re.search(r'if\s*\(([^)]+)\)', line), likewise for and while
\*   cpp_call    re.search(r'\w+\s*\([^)]*\)\s*;', line)
\*   ts_call     re.search(r'\w+\s*\([^)]*\)', line)
Line_Blank ==
    [text |-> <<>>,
     cpp_def |-> FALSE, call_name |-> None,
     ts_def |-> FALSE, ts_name |-> None,
     if_cond |-> None, for_text |-> None,
     while_cond |-> None,
     cpp_call |-> FALSE, ts_call |-> FALSE]
Line_Comment ==
    [text |-> <<"/", "/", " ", "c">>,
     cpp_def |-> FALSE, call_name |-> None,
     ts_def |-> FALSE, ts_name |-> None,
     if_cond |-> None, for_text |-> None,
     while_cond |-> None,
     cpp_call |-> FALSE, ts_call |-> FALSE]
Line_FuncDef ==
    [text |-> <<"i", "n", "t", " ", "m", "a", "i", "n", "(", ")", " ", "{">>,
     cpp_def |-> TRUE, call_name |-> <<"m", "a", "i", "n">>,
     ts_def |-> FALSE, ts_name |-> <<"m", "a", "i", "n">>,
     if_cond |-> None, for_text |-> None,
     while_cond |-> None,
     cpp_call |-> FALSE, ts_call |-> TRUE]
Line_If ==
    [text |-> <<"i", "f", " ", "(", "x", ")", " ", "{">>,
     cpp_def |-> FALSE, call_name |-> <<"i", "f">>,
     ts_def |-> TRUE, ts_name |-> <<"i", "f">>,
     if_cond |-> <<"x">>, for_text |-> None,
     while_cond |-> None,
     cpp_call |-> FALSE, ts_call |-> TRUE]
Line_For ==
    [text |-> <<"f", "o", "r", " ", "(", ";", ";", ")", " ", "{">>,
     cpp_def |-> FALSE, call_name |-> <<"f", "o", "r">>,
     ts_def |-> TRUE, ts_name |-> <<"f", "o", "r">>,
     if_cond |-> None, for_text |-> <<";", ";">>,
     while_cond |-> None,
     cpp_call |-> FALSE, ts_call |-> TRUE]
Line_While ==
    [text |-> <<"w", "h", "i", "l", "e", " ", "(", "x", ")", " ", "{">>,
     cpp_def |-> FALSE, call_name |-> <<"w", "h", "i", "l", "e">>,
     ts_def |-> TRUE, ts_name |-> <<"w", "h", "i", "l", "e">>,
     if_cond |-> None, for_text |-> None,
     while_cond |-> <<"x">>,
     cpp_call |-> FALSE, ts_call |-> TRUE]
Line_Call ==
    [text |-> <<"f", "o", "o", "(", "1", ")", ";">>,
     cpp_def |-> FALSE, call_name |-> <<"f", "o", "o">>,
     ts_def |-> FALSE, ts_name |-> <<"f", "o", "o">>,
     if_cond |-> None, for_text |-> None,
     while_cond |-> None,
     cpp_call |-> TRUE, ts_call |-> TRUE]
Line_Return ==
    [text |-> <<"r", "e", "t", "u", "r", "n", " ", "0", ";">>,
     cpp_def |-> FALSE, call_name |-> None,
     ts_def |-> FALSE, ts_name |-> None,
     if_cond |-> None, for_text |-> None,
     while_cond |-> None,
     cpp_call |-> FALSE, ts_call |-> FALSE]
Line_Other ==
    [text |-> <<"x", " ", "=", " ", "1", ";">>,
     cpp_def |-> FALSE, call_name |-> None,
     ts_def |-> FALSE, ts_name |-> None,
     if_cond |-> None, for_text |-> None,
     while_cond |-> None,
     cpp_call |-> FALSE, ts_call |-> FALSE]
Line_ReturnCall ==
    [text |-> <<"r", "e", "t", "u", "r", "n", " ", "f", "o", "o", "(", ")", ";">>,
     cpp_def |-> FALSE, call_name |-> <<"f", "o", "o">>,
     ts_def |-> FALSE, ts_name |-> <<"f", "o", "o">>,
     if_cond |-> None, for_text |-> None,
     while_cond |-> None,
     cpp_call |-> TRUE, ts_call |-> TRUE]
Line_TsFunction ==
    [text |-> <<"f", "u", "n", "c", "t", "i", "o", "n", " ", "f", "o", "o", "(", ")", " ", "{">>,
     cpp_def |-> TRUE, call_name |-> <<"f", "o", "o">>,
     ts_def |-> TRUE, ts_name |-> <<"f", "o", "o">>,
     if_cond |-> None, for_text |-> None,
     while_cond |-> None,
     cpp_call |-> FALSE, ts_call |-> TRUE]
Line_Iffy ==
    [text |-> <<"i", "f", "f", "y", "(", ")", ";">>,
     cpp_def |-> FALSE, call_name |-> <<"i", "f", "f", "y">>,
     ts_def |-> FALSE, ts_name |-> <<"i", "f", "f", "y">>,
     if_cond |-> None, for_text |-> None,
     while_cond |-> None,
     cpp_call |-> TRUE, ts_call |-> TRUE]
Line_Brace ==
    [text |-> <<"}">>,
     cpp_def |-> FALSE, call_name |-> None,
     ts_def |-> FALSE, ts_name |-> None,
     if_cond |-> None, for_text |-> None,
     while_cond |-> None,
     cpp_call |-> FALSE, ts_call |-> FALSE]

SampleLines ==
    {Line_Blank, Line_Comment, Line_FuncDef, Line_If, Line_For, Line_While, Line_Call, Line_Return, Line_Other, Line_ReturnCall, Line_TsFunction, Line_Iffy, Line_Brace}

MaxLines == 2

\* the line lists of at most n lines: what code_content.split('\n') gives
RECURSIVE LineListsUpTo(_)
LineListsUpTo(n) ==
    IF n = 0 THEN {<<>>}
    ELSE LET shorter == LineListsUpTo(n - 1) IN
         shorter \cup {Append(ls, l) : ls \in {x \in shorter : Len(x) = n - 1}, l \in SampleLines}

\* a source text of C++ or TypeScript: no Python, and its lines
LineSource(lines) == [ast |-> SyntaxError, lines |-> lines]
SplitLines(code_content) == code_content.lines

\* line.strip(), for blanks
\* c.isspace(), for the characters of plain text
IsSpace(c) == c \in {" ", "\t", "\n", "\r"}
RECURSIVE LStrip(_)
LStrip(text) == IF text # <<>> /\ IsSpace(Head(text)) THEN LStrip(Tail(text)) ELSE text
RECURSIVE RStrip(_)
RStrip(text) ==
    IF text # <<>> /\ IsSpace(text[Len(text)]) THEN RStrip(SubSeq(text, 1, Len(text) - 1)) ELSE text
Strip(text) == RStrip(LStrip(text))

OrElse(group, default) == IF group # None THEN group ELSE default

\* fault model: the return rule is tried before the call rule
ClassifyCpp_ReturnBeforeCall(l) ==
    LET line == Strip(l.text) IN
    IF line = <<>> \/ StartsWith(line, <<"/", "/">>) \/ StartsWith(line, <<"/", "*">>) THEN None
    ELSE IF l.cpp_def
         THEN IF l.call_name # None THEN <<<<"F", "u", "n", "c", "t", "i", "o", "n", ":", " ">> \o l.call_name, "function">> ELSE None
    ELSE IF StartsWith(line, <<"i", "f">>)
         THEN <<<<"I", "f", ":", " ">> \o OrElse(l.if_cond, <<"c", "o", "n", "d", "i", "t", "i", "o", "n">>), "condition">>
    ELSE IF StartsWith(line, <<"f", "o", "r">>)
         THEN <<<<"F", "o", "r", ":", " ">> \o OrElse(l.for_text, <<"l", "o", "o", "p">>), "condition">>
    ELSE IF StartsWith(line, <<"w", "h", "i", "l", "e">>)
         THEN <<<<"W", "h", "i", "l", "e", ":", " ">> \o OrElse(l.while_cond, <<"c", "o", "n", "d", "i", "t", "i", "o", "n">>), "condition">>
    ELSE IF StartsWith(line, <<"r", "e", "t", "u", "r", "n">>) THEN <<<<"R", "e", "t", "u", "r", "n">>, "process">>
    ELSE IF l.cpp_call
         THEN IF l.call_name # None THEN <<<<"C", "a", "l", "l", ":", " ">> \o l.call_name \o <<"(", ")">>, "function">> ELSE None
    ELSE None

\* the node parse_lines creates for a line: <<label, type>>, or None for no node
ClassifyCpp(l) ==
    LET line == Strip(l.text) IN
    IF line = <<>> \/ StartsWith(line, <<"/", "/">>) \/ StartsWith(line, <<"/", "*">>) THEN None
    ELSE IF l.cpp_def
         THEN IF l.call_name # None THEN <<<<"F", "u", "n", "c", "t", "i", "o", "n", ":", " ">> \o l.call_name, "function">> ELSE None
    ELSE IF StartsWith(line, <<"i", "f">>)
         THEN <<<<"I", "f", ":", " ">> \o OrElse(l.if_cond, <<"c", "o", "n", "d", "i", "t", "i", "o", "n">>), "condition">>
    ELSE IF StartsWith(line, <<"f", "o", "r">>)
         THEN <<<<"F", "o", "r", ":", " ">> \o OrElse(l.for_text, <<"l", "o", "o", "p">>), "condition">>
    ELSE IF StartsWith(line, <<"w", "h", "i", "l", "e">>)
         THEN <<<<"W", "h", "i", "l", "e", ":", " ">> \o OrElse(l.while_cond, <<"c", "o", "n", "d", "i", "t", "i", "o", "n">>), "condition">>
    ELSE IF l.cpp_call
         THEN IF l.call_name # None THEN <<<<"C", "a", "l", "l", ":", " ">> \o l.call_name \o <<"(", ")">>, "function">> ELSE None
    ELSE IF StartsWith(line, <<"r", "e", "t", "u", "r", "n">>) THEN <<<<"R", "e", "t", "u", "r", "n">>, "process">>
    ELSE None

ClassifyTs(l) ==
    LET line == Strip(l.text) IN
    IF line = <<>> \/ StartsWith(line, <<"/", "/">>) \/ StartsWith(line, <<"/", "*">>) THEN None
    ELSE IF l.ts_def
         THEN IF l.ts_name # None THEN <<<<"F", "u", "n", "c", "t", "i", "o", "n", ":", " ">> \o l.ts_name, "function">> ELSE None
    ELSE IF StartsWith(line, <<"i", "f">>)
         THEN <<<<"I", "f", ":", " ">> \o OrElse(l.if_cond, <<"c", "o", "n", "d", "i", "t", "i", "o", "n">>), "condition">>
    ELSE IF StartsWith(line, <<"f", "o", "r">>)
         THEN <<<<"F", "o", "r", ":", " ">> \o OrElse(l.for_text, <<"l", "o", "o", "p">>), "condition">>
    ELSE IF StartsWith(line, <<"w", "h", "i", "l", "e">>)
         THEN <<<<"W", "h", "i", "l", "e", ":", " ">> \o OrElse(l.while_cond, <<"c", "o", "n", "d", "i", "t", "i", "o", "n">>), "condition">>
    ELSE IF /\ l.ts_call
            /\ ~StartsWith(line, <<"i", "f">>) /\ ~StartsWith(line, <<"f", "o", "r">>) /\ ~StartsWith(line, <<"w", "h", "i", "l", "e">>)
         THEN IF l.call_name # None THEN <<<<"C", "a", "l", "l", ":", " ">> \o l.call_name \o <<"(", ")">>, "function">> ELSE None
    ELSE IF StartsWith(line, <<"r", "e", "t", "u", "r", "n">>) THEN <<<<"R", "e", "t", "u", "r", "n">>, "process">>
    ELSE None

Classify(lang, l) == IF lang = "cpp" THEN ClassifyCpp(l) ELSE ClassifyTs(l)

\* while i < len(lines): about to look at lines[i]; lines that make no node
\* are passed over
RECURSIVE NextLine(_, _, _, _)
NextLine(t, f, i, cursor) ==
    IF i > Len(f.lines)
    THEN WithCall(t, [f EXCEPT !.pc = "return"],
                  CreateNodeFrame(f.self, <<"E", "n", "d">>, "end", cursor))
    ELSE LET c == Classify(f.self[2], f.lines[i]) IN
         IF c = None THEN NextLine(t, f, i + 1, cursor)
         ELSE WithCall(t, [f EXCEPT !.pc = "line", !.i = i],
                       CreateNodeFrame(f.self, c[1], c[2], cursor))

parse_lines(t) ==
    /\ At(t, "parse_lines")
    /\ LET f == Top(t)
           r == ret[t]
       IN  \/ /\ f.pc = "start"
              /\ Step(t, WithCall(t, [f EXCEPT !.pc = "got_start"],
                            CreateNodeFrame(f.self, <<"S", "t", "a", "r", "t">>, "start", None)),
                      heap, r)
           \/ /\ f.pc = "got_start"
              /\ Step(t, NextLine(t, [f EXCEPT !.start_id = r, !.current_id = r], 1, r), heap, r)
           \/ /\ f.pc = "line"
              /\ Step(t, NextLine(t, [f EXCEPT !.current_id = r], f.i + 1, r), heap, r)
           \/ /\ f.pc = "return"
              /\ Step(t, Below(t), heap, None)
    /\ UNCHANGED <<parsers, fs, todo, results, hashseed>>

\* the dict CppParser.parse and TypeScriptParser.parse return
LineFlowData(self, f) ==
    [nodes |-> parsers[self[1]][self[2]].nodes,
     edges |-> parsers[self[1]][self[2]].edges,
     file_path |-> f.file_path]

line_parse(t) ==
    /\ At(t, "line_parse")
    /\ LET f == Top(t)
           r == ret[t]
       IN  \/ /\ f.pc = "reset"
              /\ parsers' = ResetParser(f.self)
              /\ Step(t, With(t, [f EXCEPT !.pc = "lines"]), ResetHeap, r)
           \/ /\ f.pc = "lines"
              /\ UNCHANGED parsers
              /\ Step(t, WithCall(t, [f EXCEPT !.pc = "return"],
                            [fn |-> "parse_lines", pc |-> "start", self |-> f.self,
                             lines |-> SplitLines(f.code_content),
                             start_id |-> None, current_id |-> None, i |-> 0]),
                      heap, r)
           \/ /\ f.pc = "return"
              /\ UNCHANGED parsers
              /\ Step(t, Below(t), heap, LineFlowData(f.self, f))
    /\ UNCHANGED <<fs, todo, results, hashseed>>

-----------------------------------------------------------------------------
(* CodeFlowApp: the Mermaid renderer.  A diagram text is a sequence of      *)
(* pieces: the literal chunks of the f-strings, and between them the        *)
(* characters of the ids and labels formatted in.                           *)

\* ''.join(texts)
RECURSIVE Join(_)
Join(texts) == IF texts = <<>> THEN <<>> ELSE Head(texts) \o Join(Tail(texts))

\* Python's text.replace(old, new), old not empty
RECURSIVE Replace(_, _, _)
Replace(text, old, new) ==
    IF Len(text) < Len(old) THEN text
    ELSE IF SubSeq(text, 1, Len(old)) = old
    THEN new \o Replace(SubSeq(text, Len(old) + 1, Len(text)), old, new)
    ELSE <<Head(text)>> \o Replace(Tail(text), old, new)

IsDigit(c) == \E i \in 1..10 : Digit[i] = c
\* characters outside ASCII that Python's text predicates accept: a letter
\* (str.isalpha), a superscript digit (str.isdigit but not str.isdecimal)
\* and a vulgar fraction (str.isnumeric only)
OtherLetters == {"é"}
OtherNumerics == {"²", "½"}
\* c.isalpha()
IsAlpha(c) == (\E i \in 1..26 : UpperChars[i] = c \/ LowerChars[i] = c) \/ c \in OtherLetters
\* c.isalnum(): c.isalpha() or c.isdecimal() or c.isdigit() or c.isnumeric()
IsAlnum(c) == IsAlpha(c) \/ IsDigit(c) \/ c \in OtherNumerics

make_safe_id(node_id) ==
    LET replaced == Replace(Replace(Replace(Replace(node_id, <<"-">>, <<"_">>),
                                            <<" ">>, <<"_">>), <<":">>, <<"_">>), <<".">>, <<"_">>)
        safe_id == SelectSeq(replaced, LAMBDA c : IsAlnum(c) \/ c = "_")
    IN  IF safe_id = <<>> \/ ~IsAlpha(safe_id[1]) THEN <<"n">> \o safe_id ELSE safe_id

MaxLabelLen == 30
KeptLabelLen == 27

clean_label(label) ==
    LET cleaned == Strip(Replace(Replace(label, <<"\"">>, <<"'">>), <<"\n">>, <<" ">>)) IN
    IF Len(cleaned) > MaxLabelLen THEN SubSeq(cleaned, 1, KeptLabelLen) \o <<".", ".", ".">> ELSE cleaned

builtins ==
    {<<"p", "r", "i", "n", "t">>, <<"l", "e", "n">>, <<"s", "t", "r">>, <<"i", "n", "t">>, <<"f", "l", "o", "a", "t">>, <<"l", "i", "s", "t">>, <<"d", "i", "c", "t">>, <<"s", "e", "t">>,
     <<"r", "a", "n", "g", "e">>, <<"e", "n", "u", "m", "e", "r", "a", "t", "e">>, <<"z", "i", "p">>, <<"o", "p", "e", "n">>, <<"c", "l", "o", "s", "e">>, <<"g", "e", "t">>, <<"a", "p", "p", "e", "n", "d">>,
     <<"T", "o", "p", "l", "e", "v", "e", "l">>, <<"L", "a", "b", "e", "l">>, <<"E", "n", "t", "r", "y">>, <<"B", "u", "t", "t", "o", "n">>, <<"F", "r", "a", "m", "e">>, <<"C", "a", "n", "v", "a", "s">>}

is_builtin_function(func_name) == \E builtin \in builtins : Contains(func_name, builtin)

\* list(set(calls)): the distinct texts of calls, in the order the set
\* iterates them.  That order follows the hashes of the texts, which the
\* interpreter's hash seed decides: seed is the order it gives them.
ListOfSet(calls, seed) ==
    SelectSeq(seed, LAMBDA name : \E i \in 1..Len(calls) : calls[i] = name)

extract_function_calls_for_function(func_name, nodes, seed) ==
    LET call_nodes == SelectSeq(nodes, LAMBDA node :
                          /\ node.type = "function"
                          /\ Contains(node.label, <<"C", "a", "l", "l", ":">>))
        call_name(node) == Strip(Replace(Replace(node.label, <<"C", "a", "l", "l", ":", " ">>, <<>>), <<"(", ")">>, <<>>))
        calls == SelectSeq(MapSeq(call_nodes, call_name),
                           LAMBDA name : ~is_builtin_function(name))
    IN  ListOfSet(calls, seed)

is_node_in_function(node, func_name, nodes) == TRUE

\* the functions list of extract_function_info after the first k nodes
RECURSIVE FunctionInfoUpTo(_, _, _)
FunctionInfoUpTo(nodes, k, seed) ==
    IF k = 0 THEN <<>>
    ELSE LET functions == FunctionInfoUpTo(nodes, k - 1, seed)
             node == nodes[k]
             func_name == Strip(Replace(node.label, <<"F", "u", "n", "c", "t", "i", "o", "n", ":", " ">>, <<>>))
         IN  IF /\ node.type = "function"
                /\ Contains(node.label, <<"F", "u", "n", "c", "t", "i", "o", "n", ":">>)
                /\ ~\E i \in 1..Len(functions) : functions[i].name = func_name
             THEN Append(functions,
                     [name |-> func_name,
                      safe_name |-> make_safe_id(func_name),
                      has_conditions |->
                          \E i \in 1..Len(nodes) :
                              /\ is_node_in_function(nodes[i], func_name, nodes)
                              /\ nodes[i].type = "condition",
                      node_id |-> node.id,
                      calls |-> extract_function_calls_for_function(func_name, nodes, seed)])
             ELSE functions

extract_function_info(nodes, seed) == FunctionInfoUpTo(nodes, Len(nodes), seed)

skip_patterns == {<<"i", "m", "p", "o", "r", "t">>, <<"a", "s", "s", "i", "g", "n">>, <<"e", "x", "p", "r">>, <<"c", "o", "n", "t", "i", "n", "u", "e">>, <<"m", "e", "r", "g", "e">>}
important_patterns ==
    {<<"t", "r", "y", " ", "b", "l", "o", "c", "k">>, <<"e", "x", "c", "e", "p", "t", "i", "o", "n">>, <<"r", "e", "t", "u", "r", "n">>, <<"c", "a", "l", "l", ":">>, <<"i", "f", ":">>, <<"f", "o", "r", ":">>, <<"w", "h", "i", "l", "e", ":">>}

is_meaningful_node(node) ==
    LET label == Lower(node.label) IN
    IF \E pattern \in skip_patterns : Contains(label, pattern) THEN FALSE
    ELSE IF node.type \in {"condition", "function"} THEN TRUE
    ELSE \E pattern \in important_patterns : Contains(label, pattern)

MaxSteps == 5

\* the lines generate_simple_sequential_flow emits for the k-th meaningful node
SequentialStep(node, k) ==
    LET step_id == <<"STEP">> \o DecStr(k)
        prev_node == IF k = 1 THEN <<"START">> ELSE <<"STEP">> \o DecStr(k - 1)
        label == clean_label(node.label)
    IN  (IF node.type = "condition"
         THEN <<"    ">> \o step_id \o <<"{">> \o label \o <<"}\n">>
              \o <<"    class ">> \o step_id \o <<" condition\n">>
         ELSE <<"    ">> \o step_id \o <<"[">> \o label \o <<"]\n">>
              \o <<"    class ">> \o step_id \o <<" process\n">>)
        \o <<"    ">> \o prev_node \o <<" --> ">> \o step_id \o <<"\n">>

generate_simple_sequential_flow(nodes) ==
    LET meaningful_nodes == SelectSeq(nodes, is_meaningful_node)
        shown == SubSeq(meaningful_nodes, 1,
                        IF Len(meaningful_nodes) < MaxSteps THEN Len(meaningful_nodes) ELSE MaxSteps)
        last == IF shown = <<>> THEN <<"START">> ELSE <<"STEP">> \o DecStr(Len(shown))
    IN  <<"flowchart TD\n", "<classDef start, process, condition, end>\n">>
        \o <<"    START([Script Start])\n", "    class START start\n">>
        \o Join([k \in 1..Len(shown) |-> SequentialStep(shown[k], k)])
        \o <<"    END([Script End])\n", "    class END end\n">>
        \o <<"    ">> \o last \o <<" --> END\n">>

\* the lines generate_function_flow_mermaid emits for a function's node
FunctionLines(func) ==
    LET safe_name == make_safe_id(func.name)
        decision_id == safe_name \o <<"_LOGIC">>
        return_id == safe_name \o <<"_RETURN">>
    IN  <<"    ">> \o safe_name \o <<"[">> \o func.name \o <<"]\n">>
        \o <<"    class ">> \o safe_name \o <<" func\n">>
        \o (IF func.has_conditions
            THEN <<"    ">> \o decision_id \o <<"{">> \o func.name \o <<" Decision Logic}\n">>
                 \o <<"    class ">> \o decision_id \o <<" decision\n">>
                 \o <<"    ">> \o safe_name \o <<" --> ">> \o decision_id \o <<"\n">>
                 \o <<"    ">> \o return_id \o <<"[Return from ">> \o func.name \o <<"]\n">>
                 \o <<"    class ">> \o return_id \o <<" important\n">>
                 \o <<"    ">> \o decision_id \o <<" --> ">> \o return_id \o <<"\n">>
            ELSE <<>>)

\* the dotted connectors generate_function_flow_mermaid emits for a function
CallLines(func, functions) ==
    LET line(called_func) ==
            LET called_safe_name == make_safe_id(called_func) IN
            IF \E i \in 1..Len(functions) : functions[i].safe_name = called_safe_name
            THEN <<"    ">> \o func.safe_name \o <<" -.->|calls| ">> \o called_safe_name \o <<"\n">>
            ELSE <<>>
    IN  Join(MapSeq(func.calls, line))

generate_function_flow_mermaid(nodes, seed) ==
    LET functions == extract_function_info(nodes, seed) IN
    IF functions = <<>> THEN generate_simple_sequential_flow(nodes)
    ELSE LET last_func == functions[Len(functions)] IN
         <<"flowchart TD\n", "<classDef main, func, decision, important>\n">>
         \o <<"    MAIN([Main Program])\n", "    class MAIN main\n">>
         \o Join(MapSeq(functions, FunctionLines))
         \o <<"    MAIN --> ">> \o functions[1].safe_name \o <<"\n">>
         \o Join(MapSeq(functions, LAMBDA func : CallLines(func, functions)))
         \o <<"    END([Program End])\n", "    class END main\n">>
         \o (IF last_func.has_conditions
             THEN <<"    ">> \o last_func.safe_name \o <<"_RETURN", " --> END\n">>
             ELSE <<"    ">> \o last_func.safe_name \o <<" --> END\n">>)

\* dict.get(key, default)
Get(dict, key, default) == IF key \in DOMAIN dict THEN dict[key] ELSE default

\* the lines generate_detailed_mermaid emits for a node
NodeLines(node) ==
    LET node_id == make_safe_id(node.id)
        label == clean_label(node.label)
        node_type == Get(node, "type", "process")
    IN  IF node_type = "start" \/ node_type = "end"
        THEN <<"    ">> \o node_id \o <<"([">> \o label \o <<"])\n">>
             \o <<"    class ">> \o node_id \o <<" startEnd\n">>
        ELSE IF node_type = "condition"
        THEN <<"    ">> \o node_id \o <<"{">> \o label \o <<"}\n">>
             \o <<"    class ">> \o node_id \o <<" condition\n">>
        ELSE IF node_type = "function"
        THEN <<"    ">> \o node_id \o <<"[">> \o label \o <<"]\n">>
             \o <<"    class ">> \o node_id \o <<" function\n">>
        ELSE <<"    ">> \o node_id \o <<"[">> \o label \o <<"]\n">>
             \o <<"    class ">> \o node_id \o <<" process\n">>

\* fault model: every connector is drawn solid
EdgeLine_Solid(edge) ==
    LET from_node == make_safe_id(edge.from)
        to_node == make_safe_id(edge.to)
        label == Get(edge, "label", "")
    IN  IF label # ""
        THEN <<"    ">> \o from_node \o <<" -->", "|", label, "| ">> \o to_node \o <<"\n">>
        ELSE <<"    ">> \o from_node \o <<" -->", " ">> \o to_node \o <<"\n">>

\* the line generate_detailed_mermaid emits for an edge
EdgeLine(edge) ==
    LET from_node == make_safe_id(edge.from)
        to_node == make_safe_id(edge.to)
        label == Get(edge, "label", "")
        style == Get(edge, "style", "solid")
        arrow == IF style = "dotted" THEN " -.->" ELSE " -->"
    IN  IF label # ""
        THEN <<"    ">> \o from_node \o <<arrow, "|", label, "| ">> \o to_node \o <<"\n">>
        ELSE <<"    ">> \o from_node \o <<arrow, " ">> \o to_node \o <<"\n">>

generate_detailed_mermaid(nodes, edges) ==
    <<"flowchart TD\n", "<classDef startEnd, process, condition, function>\n">>
    \o Join(MapSeq(nodes, NodeLines))
    \o Join(MapSeq(edges, EdgeLine))


\* the identifiers generate_function_flow_mermaid declares the nodes of a
\* function under: the function's, then its _LOGIC and _RETURN nodes'
FunctionIds(func) ==
    LET safe_name == make_safe_id(func.name) IN
    <<safe_name>>
    \o (IF func.has_conditions
        THEN <<safe_name \o <<"_", "L", "O", "G", "I", "C">>, safe_name \o <<"_", "R", "E", "T", "U", "R", "N">>>>
        ELSE <<>>)

\* the identifiers of the nodes of the function-flow diagram, in the order
\* it declares them; the sequential fallback declares START, STEPk and END
FunctionFlowIds(nodes, seed) ==
    LET functions == extract_function_info(nodes, seed) IN
    IF functions = <<>>
    THEN LET shown == Len(SelectSeq(nodes, is_meaningful_node))
             steps == IF shown < MaxSteps THEN shown ELSE MaxSteps
         IN  <<<<"S", "T", "A", "R", "T">>>> \o [k \in 1..steps |-> <<"S", "T", "E", "P">> \o DecStr(k)] \o <<<<"E", "N", "D">>>>
    ELSE <<<<"M", "A", "I", "N">>>> \o Join(MapSeq(functions, FunctionIds)) \o <<<<"E", "N", "D">>>>

\* the identifiers of the nodes of the detailed diagram, in node order
DetailedIds(nodes) == MapSeq(nodes, LAMBDA node : make_safe_id(node.id))

\* the identifiers generate_function_flow_mermaid draws a dotted connector
\* to from a function, in the order it draws them
CallTargets(func, functions) ==
    SelectSeq(MapSeq(func.calls, make_safe_id),
              LAMBDA called_safe_name :
                  \E i \in 1..Len(functions) : functions[i].safe_name = called_safe_name)

\* the solid connectors of the function-flow diagram, as pairs of
\* identifiers: each function with conditions to its _LOGIC node and on to
\* its _RETURN node, MAIN to the first function, and the last function (its
\* _RETURN node when it has one) to END
SolidConnectors(functions) ==
    LET inner(func) ==
            IF func.has_conditions
            THEN <<<<func.safe_name, func.safe_name \o <<"_", "L", "O", "G", "I", "C">>>>,
                   <<func.safe_name \o <<"_", "L", "O", "G", "I", "C">>, func.safe_name \o <<"_", "R", "E", "T", "U", "R", "N">>>>>>
            ELSE <<>>
        last_func == functions[Len(functions)]
    IN  Join(MapSeq(functions, inner))
        \o <<<<<<"M", "A", "I", "N">>, functions[1].safe_name>>>>
        \o <<<<IF last_func.has_conditions THEN last_func.safe_name \o <<"_", "R", "E", "T", "U", "R", "N">>
                                           ELSE last_func.safe_name,
               <<"E", "N", "D">>>>>>

\* the identifier generate_simple_sequential_flow gives its k-th step
StepId(k) == <<"S", "T", "E", "P">> \o DecStr(k)

\* the nodes generate_simple_sequential_flow shows as steps:
\* meaningful_nodes[:5]
SequentialSteps(nodes) ==
    LET meaningful_nodes == SelectSeq(nodes, is_meaningful_node) IN
    SubSeq(meaningful_nodes, 1,
           IF Len(meaningful_nodes) < MaxSteps THEN Len(meaningful_nodes) ELSE MaxSteps)

\* the connectors generate_simple_sequential_flow emits, as pairs of
\* identifiers in the order it emits them: prev_node to each step, then
\* the last prev_node to END
SequentialConnectors(nodes) ==
    LET steps == SequentialSteps(nodes)
        prev_node(k) == IF k = 1 THEN <<"S", "T", "A", "R", "T">> ELSE StepId(k - 1)
    IN  [k \in 1..Len(steps) |-> <<prev_node(k), StepId(k)>>]
        \o <<<<prev_node(Len(steps) + 1), <<"E", "N", "D">>>>>>
-----------------------------------------------------------------------------
(* CodeFlowApp.analyze_code and the Flask routes *)

\* open(file_path).read() fails: no such file, no permission, not UTF-8
Unreadable == [cls |-> "OSError"]

\* open(file_path, 'r', encoding='utf-8').read()
ReadFile(file_path) ==
    IF file_path \in DOMAIN fs.files THEN fs.files[file_path] ELSE Unreadable

\* os.path.exists(path)
PathExists(path) == path \in DOMAIN fs.files \/ path \in DOMAIN fs.dirs

\* the text '' (a file of no bytes)
EmptyText == [ast |-> Module(<<>>), lines |-> <<Line_Blank>>, empty |-> TRUE]

\* Python's truth value of code_content: None and '' are false
HasContent(code_content) == code_content # NoneNode /\ code_content # EmptyText

ErrorResult(message) == [error |-> message]

\* the dict analyze_code returns when parse and both renderers return
AnalysisResult(language, flow_data, seed) ==
    [language |-> language,
     flow_data |-> flow_data,
     mermaid_code |-> generate_function_flow_mermaid(NodesOf(flow_data), seed),
     detailed_mermaid |-> generate_detailed_mermaid(NodesOf(flow_data), EdgesOf(flow_data))]

\* the value a call returns: to the caller's frame, or, for the call the
\* thread was asked to make, to results
Finish(t, value) ==
    /\ Schedule(t)
    /\ stack' = [stack EXCEPT ![t] = Below(t)]
    /\ IF Len(stack[t]) = 1
       THEN results' = [results EXCEPT ![t] = Append(@, value)] /\ UNCHANGED ret
       ELSE ret' = [ret EXCEPT ![t] = value] /\ UNCHANGED results
    /\ UNCHANGED <<heap, parsers, fs, todo, hashseed>>

\* an exception that nothing catches ends the call the thread was asked to make
Uncaught(t, exception) ==
    /\ Schedule(t)
    /\ stack' = [stack EXCEPT ![t] = <<>>]
    /\ results' = [results EXCEPT ![t] = Append(@, [raised |-> exception])]
    /\ UNCHANGED <<heap, parsers, ret, fs, todo, hashseed>>

AnalyzeCodeFrame(self, file_path, code_content) ==
    [fn |-> "analyze_code", pc |-> "start", self |-> self, file_path |-> file_path,
     code_content |-> code_content, language |-> NoLanguage, e |-> ""]

\* detect_language(file_path) or 'python'
LanguageOrPython(file_path) ==
    IF detect_language(file_path) # NoLanguage THEN detect_language(file_path) ELSE "python"

analyze_code(t) ==
    /\ At(t, "analyze_code")
    /\ LET f == Top(t)
           r == ret[t]
       IN  \/ /\ f.pc = "start"
              /\ ~IsText(f.file_path)
              /\ Uncaught(t, "TypeError")
           \/ /\ f.pc = "start"
              /\ IsText(f.file_path)
              /\ HasContent(f.code_content)
              /\ LET language == LanguageOrPython(f.file_path) IN
                 /\ Step(t, WithCall(t, [f EXCEPT !.pc = "parsed", !.language = language],
                               ParseFrame(<<f.self, language>>, f.code_content, f.file_path)),
                         heap, r)
                 /\ UNCHANGED <<parsers, fs, todo, results, hashseed>>
           \/ /\ f.pc = "start"
              /\ IsText(f.file_path)
              /\ ~HasContent(f.code_content)
              /\ detect_language(f.file_path) = NoLanguage
              /\ Finish(t, ErrorResult(<<"Unsupported file type">>))
           \/ /\ f.pc = "start"
              /\ IsText(f.file_path)
              /\ ~HasContent(f.code_content)
              /\ detect_language(f.file_path) # NoLanguage
              /\ ReadFile(f.file_path) = Unreadable
              /\ Finish(t, ErrorResult(<<"Error reading file: ", "[Errno 2] No such file or directory">>))
           \/ /\ f.pc = "start"
              /\ IsText(f.file_path)
              /\ ~HasContent(f.code_content)
              /\ detect_language(f.file_path) # NoLanguage
              /\ ReadFile(f.file_path) # Unreadable
              /\ LET language == detect_language(f.file_path)
                     code_content == ReadFile(f.file_path)
                 IN  /\ Step(t, WithCall(t, [f EXCEPT !.pc = "parsed", !.language = language,
                                                      !.code_content = code_content],
                                   ParseFrame(<<f.self, language>>, code_content, f.file_path)),
                             heap, r)
                     /\ UNCHANGED <<parsers, fs, todo, results, hashseed>>
           \/ /\ f.pc = "parsed"
              /\ Finish(t, AnalysisResult(f.language, r, hashseed[f.self]))
           \/ /\ f.pc = "except"
              /\ Finish(t, ErrorResult(<<"Parsing error: ", f.e>>))

\* the text of a result: the lists it refers to are written out as they are now
WriteOut(result) ==
    IF "flow_data" \in DOMAIN result
    THEN [result EXCEPT !.flow_data = [@ EXCEPT !.nodes = NodesOf(result.flow_data),
                                                !.edges = EdgesOf(result.flow_data)]]
    ELSE result

\* jsonify(value): the response that carries the value's text
Jsonify(value) == [json |-> value]

\* the route /analyze
analyze(t) ==
    /\ At(t, "analyze")
    /\ LET f == Top(t)
           r == ret[t]
       IN  \/ /\ f.pc = "start"
              /\ "code" \in DOMAIN f.data
              /\ Step(t, WithCall(t, [f EXCEPT !.pc = "jsonify"],
                            AnalyzeCodeFrame(f.self, <<"t", "e", "m", "p", ".", "p", "y">>, f.data.code)),
                      heap, r)
              /\ UNCHANGED <<parsers, fs, todo, results, hashseed>>
           \/ /\ f.pc = "start"
              /\ "code" \notin DOMAIN f.data
              /\ "file_path" \in DOMAIN f.data
              /\ Step(t, WithCall(t, [f EXCEPT !.pc = "jsonify"],
                            AnalyzeCodeFrame(f.self, f.data.file_path, NoneNode)),
                      heap, r)
              /\ UNCHANGED <<parsers, fs, todo, results, hashseed>>
           \/ /\ f.pc = "start"
              /\ "code" \notin DOMAIN f.data
              /\ "file_path" \notin DOMAIN f.data
              /\ Finish(t, Jsonify(ErrorResult(<<"No code or file path provided">>)))
           \/ /\ f.pc = "jsonify"
              /\ Finish(t, Jsonify(WriteOut(r)))

supported_extensions ==
    <<<<".", "p", "y">>, <<".", "c", "p", "p">>, <<".", "c">>, <<".", "c", "c">>, <<".", "c", "x", "x">>, <<".", "h">>, <<".", "h", "p", "p">>,
      <<".", "t", "s">>, <<".", "j", "s">>, <<".", "t", "s", "x">>, <<".", "j", "s", "x">>>>

\* any(file.endswith(ext) for ext in supported_extensions)
HasSupportedExtension(file) ==
    \E i \in 1..Len(supported_extensions) : EndsWith(file, supported_extensions[i])

\* os.path.join(root, file)
PathJoin(root, file) == root \o <<"/">> \o file

\* result['file_path'] = file_path
TagWithPath(result, file_path) ==
    IF "error" \in DOMAIN result
    THEN [error |-> result.error, file_path |-> file_path]
    ELSE [language |-> result.language, flow_data |-> result.flow_data,
          mermaid_code |-> result.mermaid_code, detailed_mermaid |-> result.detailed_mermaid,
          file_path |-> file_path]

\* for root, dirs, files in os.walk(directory_path): for file in files:
\* about to look at the k-th file of the w-th directory; files the filter
\* leaves out are passed over
RECURSIVE NextFile(_, _, _, _)
NextFile(t, f, w, k) ==
    LET walk == fs.dirs[f.directory_path] IN
    IF w > Len(walk) THEN With(t, [f EXCEPT !.pc = "jsonify"])
    ELSE IF k > Len(walk[w].files) THEN NextFile(t, f, w + 1, 1)
    ELSE IF HasSupportedExtension(walk[w].files[k])
    THEN LET file_path == PathJoin(walk[w].root, walk[w].files[k]) IN
         WithCall(t, [f EXCEPT !.pc = "analyzed", !.w = w, !.k = k, !.file_path = file_path],
                  AnalyzeCodeFrame(f.self, file_path, NoneNode))
    ELSE NextFile(t, f, w, k + 1)

\* the route /analyze_directory
analyze_directory(t) ==
    /\ At(t, "analyze_directory")
    /\ LET f == Top(t)
           r == ret[t]
       IN  \/ /\ f.pc = "start"
              /\ ~PathExists(f.directory_path)
              /\ Finish(t, Jsonify(ErrorResult(<<"Directory does not exist">>)))
           \/ /\ f.pc = "start"
              /\ PathExists(f.directory_path)
              /\ f.directory_path \in DOMAIN fs.dirs
              /\ Step(t, NextFile(t, f, 1, 1), heap, r)
              /\ UNCHANGED <<parsers, fs, todo, results, hashseed>>
           \/ /\ f.pc = "start"
              /\ PathExists(f.directory_path)
              /\ f.directory_path \notin DOMAIN fs.dirs
              /\ Step(t, With(t, [f EXCEPT !.pc = "jsonify"]), heap, r)
              /\ UNCHANGED <<parsers, fs, todo, results, hashseed>>
           \/ /\ f.pc = "analyzed"
              /\ Step(t, NextFile(t, [f EXCEPT !.results = Append(@, TagWithPath(r, f.file_path))],
                                  f.w, f.k + 1),
                      heap, r)
              /\ UNCHANGED <<parsers, fs, todo, results, hashseed>>
           \/ /\ f.pc = "jsonify"
              /\ Finish(t, Jsonify([results |-> MapSeq(f.results, WriteOut)]))

\* thread t makes the next call it was asked to make
Request(t) ==
    /\ stack[t] = <<>>
    /\ todo[t] # <<>>
    /\ LET call == Head(todo[t]) IN
       /\ Schedule(t)
       /\ stack' = [stack EXCEPT ![t] =
             <<CASE call.op = "analyze_code" ->
                       AnalyzeCodeFrame(call.app, call.file_path, call.code_content)
                 [] call.op = "analyze" ->
                       [fn |-> "analyze", pc |-> "start", self |-> call.app, data |-> call.data]
                 [] call.op = "analyze_directory" ->
                       [fn |-> "analyze_directory", pc |-> "start", self |-> call.app,
                        directory_path |-> call.directory_path, results |-> <<>>,
                        w |-> 0, k |-> 0, file_path |-> None]>>]
       /\ todo' = [todo EXCEPT ![t] = Tail(@)]
    /\ UNCHANGED <<heap, parsers, ret, fs, results, hashseed>>

-----------------------------------------------------------------------------
(* The runs: what is analysed, on which file system, under which hash seed *)

\* programs beyond the enumerated ones: a function whose if/else holds a call
\* statement in each branch; a return with a value and a method call; two
\* functions that call each other and are called at module level
Module_IfElseCalls ==
    Module(<<FunctionDef(<<"f">>,
                <<If(Name(<<"c">>), <<Expr(Call(Name(<<"a">>)))>>, <<Expr(Call(Name(<<"b">>)))>>)>>)>>)
Module_ReturnValue ==
    Module(<<FunctionDef(<<"f">>,
                <<Assign(<<Name(<<"x">>)>>, Call(Attribute(Name(<<"o">>), <<"m">>))),
                  Return(Name(<<"x">>))>>),
             Expr(Call(Name(<<"f">>)))>>)
Module_MutualCalls ==
    Module(<<FunctionDef(<<"f">>, <<Assign(<<Name(<<"x">>)>>, Call(Name(<<"g">>)))>>),
             FunctionDef(<<"g">>, <<Assign(<<Name(<<"y">>)>>, Call(Name(<<"f">>)))>>),
             Expr(Call(Name(<<"f">>)))>>)
\* a function named like the diagram's end node; a call inside a nested
\* function; two functions of one name; a function that calls another twice;
\* a function with a condition beside one without
Module_EndFunction ==
    Module(<<FunctionDef(<<"E", "N", "D">>, <<Return(NoneNode)>>)>>)
Module_NestedCall ==
    Module(<<FunctionDef(<<"f">>, <<FunctionDef(<<"h">>, <<Assign(<<Name(<<"x">>)>>, Call(Name(<<"g">>)))>>)>>),
             FunctionDef(<<"g">>, <<Return(NoneNode)>>)>>)
Module_SameName ==
    Module(<<FunctionDef(<<"f">>, <<Assign(<<Name(<<"x">>)>>, Call(Name(<<"g">>)))>>),
             FunctionDef(<<"g">>, <<Return(NoneNode)>>),
             FunctionDef(<<"f">>, <<Return(NoneNode)>>)>>)
Module_CallsTwice ==
    Module(<<FunctionDef(<<"f">>, <<Assign(<<Name(<<"x">>)>>, Call(Name(<<"g">>))),
                                  Assign(<<Name(<<"y">>)>>, Call(Name(<<"g">>)))>>),
             FunctionDef(<<"g">>, <<Return(NoneNode)>>)>>)
Module_OneCondition ==
    Module(<<FunctionDef(<<"f">>, <<If(Name(<<"c">>), <<Assign(<<Name(<<"x">>)>>, Call(Name(<<"g">>)))>>, <<>>)>>),
             FunctionDef(<<"g">>, <<Assign(<<Name(<<"n">>)>>, Constant(<<"1">>))>>)>>)
\* a script whose condition and call carry a word of the renderer's skip list
Module_SkipWords ==
    Module(<<If(Name(<<"i", "m", "p", "o", "r", "t", "a", "n", "t">>), <<Assign(<<Name(<<"x">>)>>, Call(Name(<<"r", "e", "a", "s", "s", "i", "g", "n">>)))>>, <<>>)>>)
\* a script of six calls
Module_SixCalls ==
    Module([k \in 1..6 |-> Assign(<<Name(<<"x">>)>>, Call(Name(<<"g">>)))])
ExtraModules ==
    {Module_IfElseCalls, Module_ReturnValue, Module_MutualCalls, Module_EndFunction,
     Module_NestedCall, Module_SameName, Module_CallsTwice, Module_OneCondition,
     Module_SkipWords, Module_SixCalls}

PySources(n) ==
    {PySource(m) : m \in ModulesUpTo(n) \cup ExtraModules}
    \cup {PySource(SyntaxError), PySource(TypeError)}

SamplePySources ==
    {PySource(Module_IfElseCalls), PySource(Module_MutualCalls),
     PySource(Module(<<While(Name(<<"c">>), <<Return(NoneNode)>>)>>)),
     PySource(SyntaxError)}

LineSources(n) == {LineSource(ls) : ls \in LineListsUpTo(n)}

SampleLineSources ==
    {LineSource(<<Line_FuncDef, Line_If, Line_Call, Line_Return, Line_Brace>>),
     LineSource(<<Line_TsFunction, Line_While, Line_ReturnCall>>)}

\* the names the call nodes of these programs can carry
CallNames == {<<"g">>, <<"f">>, <<"o", ".", "m">>}

\* the orders a set of these names can iterate in
HashSeeds ==
    {seed \in [1..Cardinality(CallNames) -> CallNames] :
        \A i, j \in 1..Cardinality(CallNames) : seed[i] = seed[j] => i = j}

SomeSeed == CHOOSE seed \in HashSeeds : TRUE

NoFiles == [files |-> EmptyDict, dirs |-> EmptyDict]
OneFile(path, content) == [files |-> (path :> content), dirs |-> EmptyDict]

AnalyzeCall(data) == [op |-> "analyze", app |-> 1, data |-> data]
AnalyzeCodeCall(file_path, code_content) ==
    [op |-> "analyze_code", app |-> 1, file_path |-> file_path, code_content |-> code_content]
AnalyzeDirectoryCall(directory_path) ==
    [op |-> "analyze_directory", app |-> 1, directory_path |-> directory_path]

Scenario(calls, files, seed) == [todo |-> calls, fs |-> files, seed |-> seed]

\* POST /analyze with the code in the request
CodeScenarios ==
    {Scenario(<<AnalyzeCall([code |-> src])>>, NoFiles, SomeSeed) : src \in PySources(MaxStmts)}
    \cup {Scenario(<<AnalyzeCall([code |-> src])>>, NoFiles, seed) :
            src \in SamplePySources, seed \in HashSeeds}

\* POST /analyze with a path, or with neither
FileScenarios ==
    {Scenario(<<AnalyzeCall([file_path |-> path])>>, OneFile(path, src), SomeSeed) :
        path \in {<<"a", ".", "c", "p", "p">>, <<"a", ".", "t", "s">>}, src \in LineSources(MaxLines)}
    \cup {Scenario(<<AnalyzeCall([file_path |-> path])>>, OneFile(path, src), SomeSeed) :
            path \in {<<"a", ".", "p", "y">>, <<"A", ".", "P", "Y">>, <<"n", "o", "t", "e", "s", ".", "t", "x", "t">>}, src \in SamplePySources \cup {EmptyText}}
    \cup {Scenario(<<AnalyzeCall([file_path |-> path])>>, NoFiles, SomeSeed) :
            path \in {<<"a", ".", "p", "y">>, <<"a", ".", "c", "p", "p">>, <<"n", "o", "t", "e", "s">>}}
    \cup {Scenario(<<AnalyzeCall([directory_path |-> <<"d">>])>>, NoFiles, SomeSeed),
          Scenario(<<AnalyzeCall([file_path |-> Number])>>, NoFiles, SomeSeed),
          Scenario(<<AnalyzeCall([file_path |-> None])>>, NoFiles, SomeSeed),
          Scenario(<<AnalyzeCall([code |-> EmptyText, file_path |-> <<"a", ".", "p", "y">>])>>,
                   OneFile(<<"a", ".", "p", "y">>, PySource(Module_IfElseCalls)), SomeSeed),
          Scenario(<<AnalyzeCall([code |-> EmptyText])>>,
                   OneFile(<<"t", "e", "m", "p", ".", "p", "y">>, PySource(Module_MutualCalls)), SomeSeed)}

\* analyze_code called with a path and a text
DirectScenarios ==
    {Scenario(<<AnalyzeCodeCall(path, src)>>,
              IF on_disk THEN OneFile(path, PySource(Module_IfElseCalls)) ELSE NoFiles,
              SomeSeed) :
        path \in {<<"t", "e", "m", "p", ".", "p", "y">>, <<"n", "o", "t", "e", "s", ".", "t", "x", "t">>, <<"n", "o", "t", "e", "s">>},
        src \in SamplePySources \cup {NoneNode, EmptyText},
        on_disk \in BOOLEAN}
    \cup {Scenario(<<AnalyzeCodeCall(path, src)>>, NoFiles, SomeSeed) :
            path \in {<<"a", ".", "c", "p", "p">>, <<"a", ".", "t", "s">>, <<"a", ".", "h">>}, src \in SampleLineSources}
    \cup {Scenario(<<AnalyzeCodeCall(path, src)>>, NoFiles, SomeSeed) :
            path \in {None, Number}, src \in {NoneNode, PySource(Module_IfElseCalls)}}

MaxFiles == 2

FileNames == {<<"m", ".", "p", "y">>, <<"b", ".", "p", "y">>, <<"A", ".", "P", "Y">>, <<"c", ".", "c", "p", "p">>, <<"n", ".", "t", "x", "t">>}

\* what a file of a walked directory can hold
FileContents(name) ==
    IF detect_language(name) = "cpp"
    THEN {LineSource(<<Line_FuncDef, Line_Call>>), Unreadable}
    ELSE IF EndsWith(name, <<".", "p", "y">>)
    THEN {PySource(Module_IfElseCalls), PySource(SyntaxError), Unreadable}
    ELSE {PySource(Module_IfElseCalls)}

\* the lists of at most n distinct file names
RECURSIVE FileListsUpTo(_)
FileListsUpTo(n) ==
    IF n = 0 THEN {<<>>}
    ELSE LET shorter == FileListsUpTo(n - 1) IN
         shorter \cup {Append(fl, name) :
                          fl \in {x \in shorter : Len(x) = n - 1},
                          name \in {x \in FileNames : TRUE}}

Distinct(seq) == \A i, j \in 1..Len(seq) : seq[i] = seq[j] => i = j

\* a directory d holding the files of file_list, with every choice of contents
DirectoryFiles(file_list) ==
    LET paths == {PathJoin(<<"d">>, file_list[i]) : i \in 1..Len(file_list)}
        name(path) == SubSeq(path, 3, Len(path))
    IN  {[files |-> contents, dirs |-> (<<"d">> :> <<[root |-> <<"d">>, files |-> file_list]>>)] :
            contents \in {c \in [paths -> UNION {FileContents(x) : x \in FileNames}] :
                             \A path \in paths : c[path] \in FileContents(name(path))}}

\* POST /analyze_directory
DirectoryScenarios ==
    UNION {{Scenario(<<AnalyzeDirectoryCall(<<"d">>)>>, files, SomeSeed) :
               files \in DirectoryFiles(file_list)} :
           file_list \in {fl \in FileListsUpTo(MaxFiles) : Distinct(fl)}}
    \cup {Scenario(<<AnalyzeDirectoryCall(<<"d">>)>>, NoFiles, SomeSeed),
          Scenario(<<AnalyzeDirectoryCall(<<"a", ".", "p", "y">>)>>,
                   OneFile(<<"a", ".", "p", "y">>, PySource(Module_IfElseCalls)), SomeSeed)}

Scenarios == CodeScenarios \cup FileScenarios \cup DirectScenarios \cup DirectoryScenarios

InitScenario(sc) ==
    /\ parsers = NewParsers(1)
    /\ heap = NewHeap(1)
    /\ stack = <<<<>>>>
    /\ ret = <<None>>
    /\ results = <<<<>>>>
    /\ todo = <<sc.todo>>
    /\ fs = sc.fs
    /\ hashseed = <<sc.seed>>
    /\ sched = [first |-> <<>>, running |-> 0, preemptions |-> 0]

Init == \E sc \in Scenarios : InitScenario(sc)

\* the steps of the builders
Builder ==
    \/ \E t \in Threads : create_node(t)
    \/ \E t \in Threads : process_statement(t)
    \/ \E t \in Threads : process_if_statement(t)
    \/ \E t \in Threads : process_for_loop(t)
    \/ \E t \in Threads : process_while_loop(t)
    \/ \E t \in Threads : process_try_statement(t)
    \/ \E t \in Threads : process_return_statement(t)
    \/ \E t \in Threads : process_function_call(t)
    \/ \E t \in Threads : process_assignment(t)
    \/ \E t \in Threads : create_function_body_flow(t)
    \/ \E t \in Threads : create_function_flows(t)
    \/ \E t \in Threads : add_function_call_edges(t)
    \/ \E t \in Threads : create_main_flow(t)
    \/ \E t \in Threads : parse(t)
    \/ \E t \in Threads : parse_lines(t)
    \/ \E t \in Threads : line_parse(t)

Next ==
    \/ \E t \in Threads : Request(t)
    \/ \E t \in Threads : analyze(t)
    \/ \E t \in Threads : analyze_directory(t)
    \/ \E t \in Threads : analyze_code(t)
    \/ Builder

Spec == Init /\ [][Next]_vars
-----------------------------------------------------------------------------
(* Reading a flow graph *)

Dotted(edge) == "style" \in DOMAIN edge /\ edge.style = "dotted"
Range(seq) == {seq[i] : i \in 1..Len(seq)}
SolidEdges(edges) == {e \in Range(edges) : ~Dotted(e)}
Ids(nodes) == {nodes[i].id : i \in 1..Len(nodes)}
\* the positions of the nodes of a kind
OfKind(nodes, kind) == {i \in 1..Len(nodes) : nodes[i].type = kind}
Labelled(nodes, label) == {i \in 1..Len(nodes) : nodes[i].label = label}

\* the ids reached from ids along edges
RECURSIVE ReachableFrom(_, _)
ReachableFrom(ids, edges) ==
    LET more == ids \cup {e.to : e \in {x \in edges : x.from \in ids}} IN
    IF more = ids THEN ids ELSE ReachableFrom(more, edges)

\* the statements the builder is given, in the order it takes them:
\* process_statement descends into the bodies of if, for, while and try
RECURSIVE Processed(_)
Processed(stmts) ==
    IF stmts = <<>> THEN <<>>
    ELSE LET s == Head(stmts)
             inner == CASE s.cls = "If" -> Processed(s.body) \o Processed(s.orelse)
                        [] s.cls \in {"For", "While"} -> Processed(s.body)
                        [] s.cls = "Try" ->
                             Processed(s.body)
                             \o (IF s.handlers = <<>> THEN <<>> ELSE Processed(s.handlers[1].body))
                        [] OTHER -> <<>>
         IN  <<s>> \o inner \o Processed(Tail(stmts))

RECURSIVE Flatten(_)
Flatten(seqs) == IF seqs = <<>> THEN <<>> ELSE Head(seqs) \o Flatten(Tail(seqs))

\* with functions, the bodies of the functions; without, the module's body
ProcessedOf(tree) ==
    LET functions == collect_functions(tree) IN
    IF functions # <<>>
    THEN Flatten(MapSeq(functions, LAMBDA func : Processed(func.node.body)))
    ELSE Processed(tree.body)

Count(seq, P(_)) == Cardinality({i \in 1..Len(seq) : P(seq[i])})

\* parse has returned a graph to thread t's analyze_code
Returned(t, language) ==
    /\ At(t, "analyze_code")
    /\ Top(t).pc = "parsed"
    /\ Top(t).language = language

\* the tree of the text thread t's analyze_code was given
TreeOf(t) == AstParse(Top(t).code_content)

-----------------------------------------------------------------------------
(* Claims *)

Connected(nodes, edges) ==
    LET solid == SolidEdges(edges)
        starts == OfKind(nodes, "start")
    IN  /\ Cardinality(starts) = 1
        /\ \A i \in starts : \A e \in solid : e.to # nodes[i].id
        /\ Ids(nodes) \subseteq ReachableFrom({nodes[i].id : i \in starts}, solid)

\* C1: every graph EnhancedPythonParser.parse returns has, on its solid
\* edges, exactly one start node, no edge into it, and every node reachable
\* from it.
C1_Connectivity ==
    \A t \in Threads :
        Returned(t, "python") => Connected(NodesOf(ret[t]), EdgesOf(ret[t]))

\* a returned graph with one start node and a function node no solid path
\* from the start node reaches
C1_UnreachableFunction ==
    \E t \in Threads :
        /\ Returned(t, "python")
        /\ LET nodes == NodesOf(ret[t])
               solid == SolidEdges(EdgesOf(ret[t]))
               starts == OfKind(nodes, "start")
           IN  /\ Cardinality(starts) = 1
               /\ \E i \in OfKind(nodes, "function") :
                    nodes[i].id \notin ReachableFrom({nodes[k].id : k \in starts}, solid)

ReachesEnd(nodes, edges) ==
    LET solid == SolidEdges(edges)
        ends == {nodes[i].id : i \in OfKind(nodes, "end")}
    IN  \A id \in Ids(nodes) : ReachableFrom({id}, solid) \cap ends # {}

\* C2: in every graph EnhancedPythonParser.parse returns, every node has a
\* path of solid edges to a node of kind end.
C2_EveryNodeReachesEnd ==
    \A t \in Threads :
        Returned(t, "python") => ReachesEnd(NodesOf(ret[t]), EdgesOf(ret[t]))

\* a returned graph in which the last node of a function's body has no
\* outgoing solid edge, while an end node exists
C2_DanglingBodyTail ==
    \E t \in Threads :
        /\ Returned(t, "python")
        /\ LET nodes == NodesOf(ret[t])
               solid == SolidEdges(EdgesOf(ret[t]))
           IN  /\ OfKind(nodes, "end") # {}
               /\ OfKind(nodes, "function") # {}
               /\ \E id \in Ids(nodes) :
                    /\ \A e \in solid : e.from # id
                    /\ \A i \in OfKind(nodes, "end") : nodes[i].id # id

\* the graphs a response carries
GraphsIn(value) ==
    IF "results" \in DOMAIN value
    THEN {value.results[i].flow_data :
             i \in {k \in 1..Len(value.results) : "flow_data" \in DOMAIN value.results[k]}}
    ELSE IF "flow_data" \in DOMAIN value THEN {value.flow_data} ELSE {}

EdgesResolve(nodes, edges) ==
    \A k \in 1..Len(edges) : edges[k].from \in Ids(nodes) /\ edges[k].to \in Ids(nodes)

\* C3: at every point of every build (Python, C++, TypeScript) and in every
\* graph an analysis has returned, both ends of every edge, solid or dotted,
\* are ids of nodes of the same graph.
C3_EdgesResolve ==
    /\ \A a \in Apps : \A lang \in Languages :
          EdgesResolve(heap[parsers[a][lang].nodes], heap[parsers[a][lang].edges])
    /\ \A t \in Threads : \A k \in 1..Len(results[t]) :
          LET result == results[t][k] IN
          /\ "flow_data" \in DOMAIN result =>
                EdgesResolve(NodesOf(result.flow_data), EdgesOf(result.flow_data))
          /\ "json" \in DOMAIN result =>
                \A g \in GraphsIn(result.json) : EdgesResolve(g.nodes, g.edges)

\* a Python build that has appended a dotted edge
C3_DottedEdgeAppended ==
    \E a \in Apps : \E e \in Range(heap[parsers[a]["python"].edges]) : Dotted(e)

HasEdge(self, from, to) == \E e \in Range(Edges(self)) : e.from = from /\ e.to = to
HasLabelledEdge(self, from, to, label) ==
    \E e \in Range(Edges(self)) :
        e.from = from /\ e.to = to /\ "label" \in DOMAIN e /\ e.label = label
IsMergeNode(self, id) ==
    \E i \in Labelled(Nodes(self), <<"C", "o", "n", "t", "i", "n", "u", "e">>) : Nodes(self)[i].id = id

\* an if, or a try with a handler
Merges(stmt) == stmt.cls = "If" \/ (stmt.cls = "Try" /\ stmt.handlers # <<>>)

\* process_if_statement, or process_try_statement with a handler, is about to return
IfReturns(t) == At(t, "process_if_statement") /\ Top(t).pc = "return"
TryReturns(t) == At(t, "process_try_statement") /\ Top(t).pc = "return"

\* C4: when the Python builder has processed an if, or a try with a
\* handler, the merge node it returns is a node of the graph, the tail of
\* the then-branch (the protected block) has an edge into it, and so has the
\* tail of the else-branch (the handler), or the condition node when there is
\* no else; and a returned graph holds exactly one merge node for each if and
\* each try with a handler the builder was given.
C4_MergeClosure ==
    \A t \in Threads :
        /\ IfReturns(t) =>
              LET f == Top(t) IN
              /\ IsMergeNode(f.self, f.merge_id)
              /\ HasEdge(f.self, f.if_body_end, f.merge_id)
              /\ HasEdge(f.self, IF f.stmt.orelse # <<>> THEN f.else_body_end ELSE f.if_id,
                         f.merge_id)
        /\ TryReturns(t) =>
              LET f == Top(t) IN
              /\ IsMergeNode(f.self, f.merge_id)
              /\ HasEdge(f.self, f.try_body_end, f.merge_id)
              /\ HasEdge(f.self, f.except_body_end, f.merge_id)
        /\ Returned(t, "python") =>
              Cardinality(Labelled(NodesOf(ret[t]), <<"C", "o", "n", "t", "i", "n", "u", "e">>))
                  = Count(ProcessedOf(TreeOf(t)), Merges)

\* an if whose else-branch added a node is about to return
C4_ElseBranchWithTail ==
    \E t \in Threads :
        /\ IfReturns(t)
        /\ Top(t).stmt.orelse # <<>>
        /\ Top(t).else_body_end # Top(t).else_body_start

\* process_statement adds a node for the statement
AddsNode(stmt) ==
    \/ stmt.cls \in {"If", "For", "While", "Try", "Return"}
    \/ /\ stmt.cls = "Assign"
       /\ Len(stmt.targets) = 1
       /\ IsInstance(stmt.targets[1], "Name")
       /\ \/ IsInstance(stmt.value, "Call")
          \/ is_important_assignment(stmt.targets[1].id, stmt.value)

LoopReturns(t) ==
    /\ stack[t] # <<>>
    /\ Top(t).fn \in {"process_for_loop", "process_while_loop"}
    /\ Top(t).pc = "return"

LoopWellFormed(f) ==
    /\ HasEdge(f.self, f.loop_body_end, f.loop_start)
    /\ (\A i \in 1..Len(f.stmt.body) : ~AddsNode(f.stmt.body[i]))
          => f.loop_body_end = f.loop_body_start
    /\ f.loop_exit \in Ids(Nodes(f.self)) \ {f.loop_start, f.loop_body_start, f.loop_body_end}
    /\ HasLabelledEdge(f.self, f.loop_start, f.loop_exit,
                       IF f.fn = "process_for_loop" THEN "Done" ELSE "False")

\* C5: when the Python builder returns from a for or while loop, the graph
\* has an edge from the tail of the body (the body-entry node when the body
\* added nothing) back to the condition node, and an edge labelled "Done"
\* (for) or "False" (while) from the condition node to an exit node; the
\* cursor the caller gets is that exit node.
C5_LoopWellFormed ==
    [][\A t \in Threads :
          LoopReturns(t) => LoopWellFormed(Top(t)) /\ ret'[t] = Top(t).loop_exit]_vars

\* a while loop whose body added a node is about to return
C5_LoopAboutToReturn ==
    \E t \in Threads :
        /\ LoopReturns(t)
        /\ Top(t).fn = "process_while_loop"
        /\ Top(t).loop_body_end # Top(t).loop_body_start

IsCallStatement(stmt) == stmt.cls = "Expr" /\ stmt.value.cls = "Call"

\* C6: in a returned Python graph every call statement of a processed body
\* has its own node of kind call labelled "Call: <name>()"; the graph of a
\* function whose body is one if/else with a call statement in each branch
\* has 1 start, 1 function, 1 condition, 2 call and 1 end node among its 9.
C6_CallStatementNodes ==
    \A t \in Threads :
        Returned(t, "python") =>
            LET nodes == NodesOf(ret[t])
                calls == SelectSeq(ProcessedOf(TreeOf(t)), IsCallStatement)
                label(k) == CallNodeLabel(calls[k].value)
            IN  /\ \A k \in 1..Len(calls) :
                      Cardinality({i \in OfKind(nodes, "call") : nodes[i].label = label(k)})
                          >= Cardinality({j \in 1..Len(calls) : label(j) = label(k)})
                /\ TreeOf(t) = Module_IfElseCalls =>
                      /\ Len(nodes) = 9
                      /\ Cardinality(OfKind(nodes, "start")) = 1
                      /\ Cardinality(OfKind(nodes, "function")) = 1
                      /\ Cardinality(OfKind(nodes, "condition")) = 1
                      /\ Cardinality(OfKind(nodes, "call")) = 2
                      /\ Cardinality(OfKind(nodes, "end")) = 1

\* the graph returned for that function: 7 nodes, none of them for a call
C6_ScenarioWithoutCallNodes ==
    \E t \in Threads :
        /\ Returned(t, "python")
        /\ TreeOf(t) = Module_IfElseCalls
        /\ Len(NodesOf(ret[t])) = 7
        /\ \A i \in 1..Len(NodesOf(ret[t])) :
              ~StartsWith(NodesOf(ret[t])[i].label, <<"C", "a", "l", "l", ":", " ">>)

\* the two forms of what analyze_code returns
IsErrorForm(value) == DOMAIN value = {"error"}
IsResultForm(value) ==
    DOMAIN value = {"language", "flow_data", "mermaid_code", "detailed_mermaid"}

\* thread t's analyze_code ends with this step, and what it hands back: to
\* the caller's frame, or, called by the thread itself or not caught, to results
AnalyzeCodeEnds(t) == At(t, "analyze_code") /\ Len(stack'[t]) < Len(stack[t])
Outcome(t) ==
    IF Len(stack'[t]) = 0 THEN results'[t][Len(results'[t])] ELSE ret'[t]

\* the path has an extension and it names no language; or there is no text
\* either to take for Python
UnsupportedFileType(f) ==
    /\ IsText(f.file_path)
    /\ detect_language(f.file_path) = NoLanguage
    /\ SplitExt(f.file_path) # <<>> \/ ~HasContent(f.code_content)

\* the file is to be read and cannot be
IOFailure(f) ==
    /\ IsText(f.file_path)
    /\ ~HasContent(f.code_content)
    /\ ReadFile(f.file_path) = Unreadable

\* C7: analyze_code never raises: what it hands back is a result (language,
\* graph, both diagrams, no error) or an error alone, and it is the error
\* when the extension names no supported language, when the file cannot be
\* read and when the parse fails.
C7_ResultOrError ==
    [][\A t \in Threads :
          AnalyzeCodeEnds(t) =>
              /\ IsErrorForm(Outcome(t)) \/ IsResultForm(Outcome(t))
              /\ (UnsupportedFileType(Top(t)) \/ IOFailure(Top(t)) \/ Top(t).pc = "except")
                    => IsErrorForm(Outcome(t))]_vars

\* analyze_code is about to return a result for a path whose extension names
\* no supported language
C7_ResultForUnsupportedExtension ==
    \E t \in Threads :
        /\ Returned(t, "python")
        /\ UnsupportedFileType(Top(t))

\* analyze_code has raised
AnalyzeCodeRaised ==
    \E t \in Threads : \E k \in 1..Len(results[t]) : "raised" \in DOMAIN results[t][k]

\* the paths of the files of a walk that pass a test, in the walk's order
WalkedFiles(walk, Passes(_)) ==
    Flatten([w \in 1..Len(walk) |->
                LET files == SelectSeq(walk[w].files, Passes) IN
                [k \in 1..Len(files) |-> PathJoin(walk[w].root, files[k])]])

\* analyze_code returns an error for the file at path
FileFails(path) ==
    \/ detect_language(path) = NoLanguage
    \/ ReadFile(path) = Unreadable
    \/ /\ detect_language(path) = "python"
       /\ AstParse(ReadFile(path)) \in {SyntaxError, TypeError}

\* the walk of thread t's analyze_directory is over
WalkOver(t) ==
    /\ At(t, "analyze_directory")
    /\ Top(t).pc = "jsonify"
    /\ Top(t).directory_path \in DOMAIN fs.dirs

\* one entry for each file that passes the test, in the walk's order, tagged
\* with its path, an error exactly for the files that fail, and no two graphs
\* in the same list objects
EntryPerFile(f, Passes(_)) ==
    LET expected == WalkedFiles(fs.dirs[f.directory_path], Passes)
        entries == f.results
    IN  /\ Len(entries) = Len(expected)
        /\ \A i \in 1..Len(entries) :
              /\ i <= Len(expected)
              /\ entries[i].file_path = expected[i]
              /\ "error" \in DOMAIN entries[i] <=> FileFails(expected[i])
              /\ "error" \notin DOMAIN entries[i] =>
                    /\ EdgesResolve(NodesOf(entries[i].flow_data), EdgesOf(entries[i].flow_data))
                    /\ \A j \in 1..Len(entries) :
                          (j # i /\ "error" \notin DOMAIN entries[j]) =>
                              entries[j].flow_data.nodes # entries[i].flow_data.nodes

\* the extension of the file names a language
LanguageKnown(file) == detect_language(file) # NoLanguage

\* C8: a directory analysis returns one entry, tagged with its path, for
\* every file under the directory whose extension names a supported
\* language; the entry carries an error exactly when the file fails, and the
\* other files' entries are there whatever fails.
C8_EntryPerSupportedFile ==
    \A t \in Threads : WalkOver(t) => EntryPerFile(Top(t), LanguageKnown)

\* the same, for the files the walk's own test lets through
\* (file.endswith(ext), which tells upper case from lower case)
EntryPerWalkedFile ==
    \A t \in Threads : WalkOver(t) => EntryPerFile(Top(t), HasSupportedExtension)

\* a walk is over that passed a file whose extension names a language
C8_SupportedFileLeftOut ==
    \E t \in Threads :
        /\ WalkOver(t)
        /\ Len(Top(t).results) < Len(WalkedFiles(fs.dirs[Top(t).directory_path], LanguageKnown))

-----------------------------------------------------------------------------
(* Two interpreter processes render the graph of the same text *)

\* a script with every statement the builder knows
Module_Script ==
    Module(<<If(Name(<<"c">>),
                <<Assign(<<Name(<<"x">>)>>, Call(Name(<<"g">>)))>>,
                <<Return(NoneNode)>>),
             For(Name(<<"i">>), Name(<<"x", "s">>),
                 <<Try(<<Assign(<<Name(<<"r", "e", "s", "u", "l", "t">>)>>, Constant(<<"1">>))>>,
                       <<ExceptHandler(<<While(Name(<<"c">>),
                                               <<Assign(<<Name(<<"n">>)>>, Constant(<<"1">>))>>)>>)>>)>>)>>)

RenderedSources ==
    {PySource(Module_MutualCalls), PySource(Module_ReturnValue), PySource(Module_Script)}

\* process a (its own CodeFlowApp, its own hash seed) is asked for the
\* diagrams of the same text; one runs after the other
InitRender ==
    \E src \in RenderedSources : \E seeds \in [1..2 -> HashSeeds] :
        /\ parsers = NewParsers(2)
        /\ heap = NewHeap(2)
        /\ stack = [t \in 1..2 |-> <<>>]
        /\ ret = [t \in 1..2 |-> None]
        /\ results = [t \in 1..2 |-> <<>>]
        /\ todo = [t \in 1..2 |-> <<[op |-> "analyze", app |-> t, data |-> [code |-> src]]>>]
        /\ fs = NoFiles
        /\ hashseed = seeds
        /\ sched = [first |-> <<1, 2>>, running |-> 0, preemptions |-> 0]

PythonBuilder ==
    \/ \E t \in Threads : create_node(t)
    \/ \E t \in Threads : process_statement(t)
    \/ \E t \in Threads : process_if_statement(t)
    \/ \E t \in Threads : process_for_loop(t)
    \/ \E t \in Threads : process_while_loop(t)
    \/ \E t \in Threads : process_try_statement(t)
    \/ \E t \in Threads : process_return_statement(t)
    \/ \E t \in Threads : process_function_call(t)
    \/ \E t \in Threads : process_assignment(t)
    \/ \E t \in Threads : create_function_body_flow(t)
    \/ \E t \in Threads : create_function_flows(t)
    \/ \E t \in Threads : add_function_call_edges(t)
    \/ \E t \in Threads : create_main_flow(t)
    \/ \E t \in Threads : parse(t)

NextRender ==
    \/ \E t \in Threads : Request(t)
    \/ \E t \in Threads : analyze(t)
    \/ \E t \in Threads : analyze_code(t)
    \/ PythonBuilder

SpecRender == InitRender /\ [][NextRender]_vars

AllDone == \A t \in Threads : ~Busy(t)

\* C10: two renderings of the same graph give the same text, in both modes:
\* when two processes have answered with the same graph, they have answered
\* with the same function-flow diagram and the same detailed diagram.
C10_SameGraphSameText ==
    (AllDone /\ results[1][1].json.flow_data = results[2][1].json.flow_data) =>
        /\ results[1][1].json.detailed_mermaid = results[2][1].json.detailed_mermaid
        /\ results[1][1].json.mermaid_code = results[2][1].json.mermaid_code

\* two processes have answered with the same graph and different
\* function-flow diagrams
C10_SameGraphOtherText ==
    /\ AllDone
    /\ results[1][1].json.flow_data = results[2][1].json.flow_data
    /\ results[1][1].json.mermaid_code # results[2][1].json.mermaid_code

-----------------------------------------------------------------------------
(* Two requests at once in one process *)

MaxPreemptions == 1

ScannedSources ==
    <<LineSource(<<Line_FuncDef, Line_If, Line_Call>>),
      LineSource(<<Line_While, Line_Return>>)>>

\* the two texts analysed at once, both of one language, with their paths
ConcurrentPairs ==
    {<<[file_path |-> <<"a", ".", "p", "y">>, code |-> PySource(Module_MutualCalls)],
       [file_path |-> <<"b", ".", "p", "y">>, code |-> PySource(Module_ReturnValue)]>>,
     <<[file_path |-> <<"a", ".", "p", "y">>, code |-> PySource(Module_Script)],
       [file_path |-> <<"b", ".", "p", "y">>, code |-> PySource(Module_Script)]>>,
     <<[file_path |-> <<"a", ".", "c", "p", "p">>, code |-> ScannedSources[1]],
       [file_path |-> <<"b", ".", "c", "p", "p">>, code |-> ScannedSources[2]]>>}

\* Threads 1 and 2 analyse the two files alone, each in a CodeFlowApp of its
\* own (apps 2 and 3), one after the other.  Threads 3 and 4 then analyse the
\* same two files through the shared CodeFlowApp (app 1), their steps
\* interleaved with at most MaxPreemptions preemptions.
InitConc ==
    \E pair \in ConcurrentPairs :
        LET call(a, k) == [op |-> "analyze", app |-> a,
                           data |-> [file_path |-> pair[k].file_path]]
        IN  /\ parsers = NewParsers(3)
            /\ heap = NewHeap(3)
            /\ stack = [t \in 1..4 |-> <<>>]
            /\ ret = [t \in 1..4 |-> None]
            /\ results = [t \in 1..4 |-> <<>>]
            /\ todo = <<<<call(2, 1)>>, <<call(3, 2)>>, <<call(1, 1)>>, <<call(1, 2)>>>>
            /\ fs = [files |-> (pair[1].file_path :> pair[1].code)
                                  @@ (pair[2].file_path :> pair[2].code),
                     dirs |-> EmptyDict]
            /\ hashseed = [a \in 1..3 |-> SomeSeed]
            /\ sched = [first |-> <<1, 2>>, running |-> 0, preemptions |-> MaxPreemptions]

NextConc ==
    \/ \E t \in Threads : Request(t)
    \/ \E t \in Threads : analyze(t)
    \/ \E t \in Threads : analyze_code(t)
    \/ Builder

SpecConc == InitConc /\ [][NextConc]_vars

\* C9: two analyses of files of one language, run at once through the shared
\* CodeFlowApp, each answer what they answer when run alone.
C9_SameAsAlone ==
    AllDone => results[3] = results[1] /\ results[4] = results[2]

\* after a preemption, an analysis has answered with more nodes than it
\* answers with alone: the graph holds nodes of the other file
C9_NodesOfOtherFile ==
    /\ AllDone
    /\ sched.preemptions < MaxPreemptions
    /\ \E t \in {3, 4} :
          /\ "flow_data" \in DOMAIN results[t][1].json
          /\ "flow_data" \in DOMAIN results[t - 2][1].json
          /\ Len(results[t][1].json.flow_data.nodes)
                > Len(results[t - 2][1].json.flow_data.nodes)
-----------------------------------------------------------------------------
(* The text helpers of the renderer, called on their own *)

MaxIdLen == 2

\* the characters raw ids are drawn from: letters, a digit, an underscore,
\* the four characters make_safe_id replaces, a bracket, and characters
\* outside ASCII
IdChars == {"a", "Z", "5", "_", "-", " ", ":", ".", "(", "é", "½"}

\* the texts of at most n characters of chars
RECURSIVE TextsUpTo(_, _)
TextsUpTo(chars, n) ==
    IF n = 0 THEN {<<>>}
    ELSE LET shorter == TextsUpTo(chars, n - 1) IN
         shorter \cup {Append(text, c) : text \in {x \in shorter : Len(x) = n - 1}, c \in chars}

MaxAffixLen == 1
MaxRunLen == 31

LabelChars == {"a", "\"", "\n", " "}

\* a run of n characters c
RECURSIVE Run(_, _)
Run(c, n) == IF n = 0 THEN <<>> ELSE <<c>> \o Run(c, n - 1)

\* labels: a run of letters between two short texts
Labels ==
    {pre \o Run("x", n) \o post :
        pre \in TextsUpTo(LabelChars, MaxAffixLen),
        n \in 0..MaxRunLen,
        post \in TextsUpTo(LabelChars, MaxAffixLen)}

MakeSafeIdCall(node_id) == [op |-> "make_safe_id", app |-> 1, node_id |-> node_id]
CleanLabelCall(label) == [op |-> "clean_label", app |-> 1, label |-> label]

TextScenarios ==
    {Scenario(<<MakeSafeIdCall(node_id)>>, NoFiles, SomeSeed) : node_id \in TextsUpTo(IdChars, MaxIdLen)}
    \cup {Scenario(<<CleanLabelCall(label)>>, NoFiles, SomeSeed) : label \in Labels}

InitText == \E sc \in TextScenarios : InitScenario(sc)

\* thread t calls code_flow_app.make_safe_id(node_id)
CallMakeSafeId(t) ==
    /\ stack[t] = <<>>
    /\ todo[t] # <<>>
    /\ Head(todo[t]).op = "make_safe_id"
    /\ results' = [results EXCEPT ![t] =
          Append(@, [node_id |-> Head(todo[t]).node_id,
                     safe_id |-> make_safe_id(Head(todo[t]).node_id)])]
    /\ todo' = [todo EXCEPT ![t] = Tail(@)]
    /\ UNCHANGED <<heap, parsers, stack, ret, fs, hashseed, sched>>

\* thread t calls code_flow_app.clean_label(label)
CallCleanLabel(t) ==
    /\ stack[t] = <<>>
    /\ todo[t] # <<>>
    /\ Head(todo[t]).op = "clean_label"
    /\ results' = [results EXCEPT ![t] =
          Append(@, [label |-> Head(todo[t]).label,
                     cleaned |-> clean_label(Head(todo[t]).label)])]
    /\ todo' = [todo EXCEPT ![t] = Tail(@)]
    /\ UNCHANGED <<heap, parsers, stack, ret, fs, hashseed, sched>>

NextText ==
    \/ \E t \in Threads : CallMakeSafeId(t)
    \/ \E t \in Threads : CallCleanLabel(t)

SpecText == InitText /\ [][NextText]_vars

\* the results of the calls of one helper
ResultsWith(field) ==
    {r \in UNION {{results[t][i] : i \in 1..Len(results[t])} : t \in Threads} :
        field \in DOMAIN r}

\* a letter, a decimal digit
IsLetter(c) == (\E i \in 1..26 : UpperChars[i] = c \/ LowerChars[i] = c) \/ c \in OtherLetters
IsDecimal(c) == \E i \in 1..10 : Digit[i] = c

\* text starts with a letter and holds only letters, digits and underscores
IsIdentifier(text) ==
    /\ text # <<>>
    /\ IsLetter(text[1])
    /\ \A i \in 1..Len(text) : IsLetter(text[i]) \/ IsDecimal(text[i]) \/ text[i] = "_"

\* C11: for every raw id, make_safe_id returns a non-empty identifier that
\* starts with a letter and holds only letters, digits and underscores, and
\* make_safe_id of that identifier is the identifier itself
C11_SafeIdIsIdentifier ==
    \A r \in ResultsWith("safe_id") :
        /\ IsIdentifier(r.safe_id)
        /\ make_safe_id(r.safe_id) = r.safe_id

\* a raw id with a vulgar fraction has been sanitized and the fraction kept
C11_FractionKept ==
    \E r \in ResultsWith("safe_id") :
        /\ \E i \in 1..Len(r.node_id) : r.node_id[i] = "½"
        /\ \E i \in 1..Len(r.safe_id) : r.safe_id[i] = "½"

\* the sanitizer is idempotent on every id (supporting C11's second half)
SafeIdIdempotent ==
    \A r \in ResultsWith("safe_id") : make_safe_id(r.safe_id) = r.safe_id

\* on ids of ASCII characters the result is an identifier
SafeIdOfAsciiIsIdentifier ==
    \A r \in ResultsWith("safe_id") :
        (\A i \in 1..Len(r.node_id) : r.node_id[i] \notin OtherLetters \cup OtherNumerics)
            => IsIdentifier(r.safe_id)

\* label with each double quote turned into a single quote and each newline
\* into a space
Substituted(label) ==
    [i \in 1..Len(label) |->
        IF label[i] = "\"" THEN "'" ELSE IF label[i] = "\n" THEN " " ELSE label[i]]

\* C13: a label longer than 30 characters is rendered as the first 27
\* characters of its substituted text followed by "...", a label of at most 30
\* characters as its substituted text, and no rendered label is longer than 30
C13_LabelTruncation ==
    \A r \in ResultsWith("cleaned") :
        /\ Len(r.label) > MaxLabelLen
              => r.cleaned = SubSeq(Substituted(r.label), 1, KeptLabelLen) \o <<".", ".", ".">>
        /\ Len(r.label) <= MaxLabelLen => r.cleaned = Substituted(r.label)
        /\ Len(r.cleaned) <= MaxLabelLen

\* a label of at most 30 characters that ends in a newline has been rendered
\* without it
C13_TrailingNewlineDropped ==
    \E r \in ResultsWith("cleaned") :
        /\ r.label # <<>>
        /\ Len(r.label) <= MaxLabelLen
        /\ r.label[Len(r.label)] = "\n"
        /\ Len(r.cleaned) < Len(r.label)

\* no rendered label is longer than 30 characters (C13's last part)
LabelNeverLong ==
    \A r \in ResultsWith("cleaned") : Len(r.cleaned) <= MaxLabelLen

\* on labels that neither start nor end with a space or a newline the
\* rendering is as C13 says
LabelTruncationOfTrimmed ==
    \A r \in ResultsWith("cleaned") :
        (r.label # <<>> /\ r.label[1] \notin {" ", "\n"} /\ r.label[Len(r.label)] \notin {" ", "\n"})
        => /\ Len(r.label) > MaxLabelLen
                 => r.cleaned = SubSeq(Substituted(r.label), 1, KeptLabelLen) \o <<".", ".", ".">>
           /\ Len(r.label) <= MaxLabelLen => r.cleaned = Substituted(r.label)
-----------------------------------------------------------------------------
(* Claims about the diagrams' identifiers and the node ids *)

\* thread t's analyze_code holds a graph some parser returned
ReturnedAny(t) == \E language \in Languages : Returned(t, language)

\* C12: in a rendered diagram two distinct nodes never get the same
\* identifier: the sanitized node ids of the detailed diagram are pairwise
\* distinct, and so are the identifiers of the function-flow diagram (MAIN,
\* the functions' names, their _LOGIC and _RETURN nodes, END).
C12_DiagramIdsDistinct ==
    \A t \in Threads :
        ReturnedAny(t) =>
            /\ Distinct(DetailedIds(NodesOf(ret[t])))
            /\ Distinct(FunctionFlowIds(NodesOf(ret[t]), hashseed[Top(t).self]))

\* a graph with a function named END has been returned: its function-flow
\* diagram declares the function's node and the end node under END
C12_FunctionNamedEnd ==
    \E t \in Threads :
        /\ ReturnedAny(t)
        /\ LET ids == FunctionFlowIds(NodesOf(ret[t]), hashseed[Top(t).self]) IN
           \E i, j \in 1..Len(ids) : i < j /\ ids[i] = ids[j] /\ ids[i] = <<"E", "N", "D">>

\* the detailed diagram's identifiers are pairwise distinct (C12's first half)
DetailedIdsDistinct ==
    \A t \in Threads : ReturnedAny(t) => Distinct(DetailedIds(NodesOf(ret[t])))

\* the k-th node of nodes (counting from 0) has id node_k
Numbered(nodes) ==
    \A i \in 1..Len(nodes) : nodes[i].id = <<"n", "o", "d", "e", "_">> \o DecStr(i - 1)

\* C14: within one graph the node ids are pairwise distinct and follow the
\* order of creation: the k-th node created during a parse (counting from 0)
\* has id node_k, in every parser at every point of a parse and in every
\* graph a parser returns, and the parser's counter is the number of nodes.
C14_NodeIdsInCreationOrder ==
    /\ \A a \in Apps : \A language \in Languages :
          LET nodes == Nodes(<<a, language>>) IN
          /\ Numbered(nodes)
          /\ Distinct(MapSeq(nodes, LAMBDA node : node.id))
          /\ parsers[a][language].node_counter = Len(nodes)
    /\ \A t \in Threads :
          ReturnedAny(t) =>
              /\ Numbered(NodesOf(ret[t]))
              /\ Distinct(MapSeq(NodesOf(ret[t]), LAMBDA node : node.id))

\* a parser has returned a graph of at least five nodes
C14_GraphOfFiveNodes ==
    \E t \in Threads : ReturnedAny(t) /\ Len(NodesOf(ret[t])) >= 5

-----------------------------------------------------------------------------
(* Claims about the Python builder's edges *)

\* the positions of the nodes process_return_statement created
ReturnNodes(nodes) ==
    {i \in 1..Len(nodes) :
        /\ nodes[i].type = "end"
        /\ StartsWith(nodes[i].label, <<"R", "e", "t", "u", "r", "n">>)}

\* C15: a return statement's node ends its path: in a graph the Python
\* builder returns, no edge leaves a node created for a return statement.
C15_ReturnEndsPath ==
    \A t \in Threads :
        Returned(t, "python") =>
            LET nodes == NodesOf(ret[t])
                edges == EdgesOf(ret[t])
            IN  \A i \in ReturnNodes(nodes) : \A j \in 1..Len(edges) : edges[j].from # nodes[i].id

\* a returned graph in which the node of a return statement of an if branch
\* has an edge into the merge node
C15_ReturnLinkedToMerge ==
    \E t \in Threads :
        /\ Returned(t, "python")
        /\ LET nodes == NodesOf(ret[t])
               edges == EdgesOf(ret[t])
           IN  \E i \in ReturnNodes(nodes) : \E j \in 1..Len(edges) : \E k \in 1..Len(nodes) :
                  /\ edges[j].from = nodes[i].id
                  /\ edges[j].to = nodes[k].id
                  /\ nodes[k].label = <<"C", "o", "n", "t", "i", "n", "u", "e">>

\* the positions of the edges that leave the node id
EdgesFrom(edges, id) == {j \in 1..Len(edges) : edges[j].from = id}
IsLabelled(edge, label) == "label" \in DOMAIN edge /\ edge.label = label

\* the edges of the if statement whose frame is f
IfWellFormed(f) ==
    LET edges == Edges(f.self)
        out == EdgesFrom(edges, f.if_id)
        no_target == IF f.stmt.orelse # <<>> THEN f.else_body_start ELSE f.merge_id
        tails == IF f.stmt.orelse # <<>> THEN {f.if_body_end, f.else_body_end} ELSE {f.if_body_end}
    IN  /\ Cardinality(out) = 2
        /\ \E j \in out : edges[j].to = f.if_body_start /\ IsLabelled(edges[j], "Yes")
        /\ \E j \in out : edges[j].to = no_target /\ IsLabelled(edges[j], "No")
        /\ \A tail \in tails :
              /\ \E j \in EdgesFrom(edges, tail) : edges[j].to = f.merge_id
              /\ \A j \in EdgesFrom(edges, tail) :
                    edges[j].to = f.merge_id => "label" \notin DOMAIN edges[j]

\* the positions of the condition nodes of if statements
IfNodes(nodes) ==
    {i \in 1..Len(nodes) :
        nodes[i].type = "condition" /\ StartsWith(nodes[i].label, <<"I", "f", ":", " ">>)}

\* C16: when the Python builder returns from an if statement, the condition
\* node has exactly two outgoing edges, one labelled "Yes" to the entry of
\* the then-branch and one labelled "No" to the entry of the else-branch, or
\* to the merge node when there is no else; the edges from the branch tails
\* into the merge node carry no label; the cursor the caller gets is the
\* merge node; and in a returned graph every if's condition node has exactly
\* two outgoing edges.
C16_IfEdges ==
    [][\A t \in Threads :
          /\ IfReturns(t) => IfWellFormed(Top(t)) /\ ret'[t] = Top(t).merge_id
          /\ Returned(t, "python") =>
                \A i \in IfNodes(NodesOf(ret[t])) :
                    Cardinality(EdgesFrom(EdgesOf(ret[t]), NodesOf(ret[t])[i].id)) = 2]_vars

\* an if without else, nested in another statement, is about to return
C16_NestedIfWithoutElse ==
    \E t \in Threads :
        /\ IfReturns(t)
        /\ Top(t).stmt.orelse = <<>>
        /\ \E k \in 1..(Len(stack[t]) - 1) :
              stack[t][k].fn \in {"process_if_statement", "process_for_loop",
                                  "process_while_loop", "process_try_statement"}

\* the nodes of a function's own body: ast.walk that does not enter the
\* functions defined inside it
RECURSIVE OwnWalk(_)
OwnWalk(queue) ==
    IF queue = <<>> THEN <<>>
    ELSE IF Head(queue).cls = "FunctionDef" THEN OwnWalk(Tail(queue))
    ELSE <<Head(queue)>> \o OwnWalk(Tail(queue) \o IterChildNodes(Head(queue)))

\* the resolved names of the calls in a function's own body
OwnCalls(func_node) ==
    {IF n.func.cls = "Name" THEN n.func.id ELSE ResolvedName(n.func) :
        n \in {x \in Range(OwnWalk(func_node.body)) :
                 x.cls = "Call" /\ x.func.cls \in {"Name", "Attribute"}}}

\* the ids of the function nodes, in the order of the functions of the file
FunctionNodeIds(nodes) ==
    MapSeq(SelectSeq(nodes, LAMBDA node :
                        /\ node.type = "function"
                        /\ StartsWith(node.label, <<"F", "u", "n", "c", "t", "i", "o", "n", ":", " ">>)),
           LAMBDA node : node.id)

\* the pairs (node of F, node of G) with a call of G's name in F's own body
OwnedCallPairs(tree, nodes) ==
    LET functions == collect_functions(tree)
        ids == FunctionNodeIds(nodes)
    IN  {<<ids[i], ids[j]>> : i \in 1..Len(functions), j \in 1..Len(functions)} \cap
        {pair \in Ids(nodes) \X Ids(nodes) :
            \E i \in 1..Len(functions), j \in 1..Len(functions) :
                /\ pair = <<ids[i], ids[j]>>
                /\ functions[j].name \in OwnCalls(functions[i].node)}

DottedPairs(edges) == {<<e.from, e.to>> : e \in {x \in Range(edges) : Dotted(x)}}

\* C17: a graph the Python builder returns has a dotted edge labelled
\* "calls" from the node of function F to the node of function G exactly
\* when F's own body holds a call whose resolved name is G's name; every
\* dotted edge is labelled "calls".
C17_CallsEdgesFromOwner ==
    \A t \in Threads :
        Returned(t, "python") =>
            LET nodes == NodesOf(ret[t])
                edges == EdgesOf(ret[t])
            IN  /\ Len(FunctionNodeIds(nodes)) = Len(collect_functions(TreeOf(t)))
                /\ DottedPairs(edges) = OwnedCallPairs(TreeOf(t), nodes)
                /\ \A e \in Range(edges) : Dotted(e) => IsLabelled(e, "calls")

\* a returned graph with a calls edge that starts at a function whose own
\* body does not hold the call
C17_EdgeFromOtherFunction ==
    \E t \in Threads :
        /\ Returned(t, "python")
        /\ Len(FunctionNodeIds(NodesOf(ret[t]))) = Len(collect_functions(TreeOf(t)))
        /\ \E pair \in DottedPairs(EdgesOf(ret[t])) :
              pair \notin OwnedCallPairs(TreeOf(t), NodesOf(ret[t]))

\* a graph's dotted edges join function nodes and are labelled "calls"
DottedEdgesAreCalls ==
    \A t \in Threads :
        Returned(t, "python") =>
            \A e \in Range(EdgesOf(ret[t])) :
                Dotted(e) =>
                    /\ IsLabelled(e, "calls")
                    /\ e.from \in Range(FunctionNodeIds(NodesOf(ret[t])))
                    /\ e.to \in Range(FunctionNodeIds(NodesOf(ret[t])))

\* C18: for any two functions F and G, a graph the Python builder returns
\* holds at most one "calls" edge from F to G, and the function-flow diagram
\* draws at most one dotted connector from F to G.
C18_OneCallsEdgePerPair ==
    \A t \in Threads :
        Returned(t, "python") =>
            LET edges == EdgesOf(ret[t])
                functions == extract_function_info(NodesOf(ret[t]), hashseed[Top(t).self])
            IN  /\ \A i, j \in 1..Len(edges) :
                      (Dotted(edges[i]) /\ Dotted(edges[j])
                       /\ edges[i].from = edges[j].from /\ edges[i].to = edges[j].to) => i = j
                /\ \A k \in 1..Len(functions) : Distinct(CallTargets(functions[k], functions))

\* a returned graph with two calls edges between the same two function nodes
C18_CallsEdgeTwice ==
    \E t \in Threads :
        /\ Returned(t, "python")
        /\ LET edges == EdgesOf(ret[t]) IN
           \E i, j \in 1..Len(edges) :
              /\ i < j
              /\ Dotted(edges[i]) /\ Dotted(edges[j])
              /\ edges[i].from = edges[j].from /\ edges[i].to = edges[j].to

\* the function-flow diagram draws at most one connector per pair (C18's
\* second half)
OneConnectorPerPair ==
    \A t \in Threads :
        Returned(t, "python") =>
            LET functions == extract_function_info(NodesOf(ret[t]), hashseed[Top(t).self]) IN
            \A k \in 1..Len(functions) : Distinct(CallTargets(functions[k], functions))

-----------------------------------------------------------------------------
(* Claims about the function-flow diagram *)

\* the function-flow diagram's functions for the graph thread t's
\* analyze_code holds
FunctionsOf(t) == extract_function_info(NodesOf(ret[t]), hashseed[Top(t).self])

\* walking a function's own body creates a condition node
HasOwnCondition(func_node) ==
    \E s \in Range(Processed(func_node.body)) : s.cls \in {"If", "For", "While"}

\* C19: in the function-flow diagram a function gets its _LOGIC and _RETURN
\* nodes exactly when a condition node was created while walking a body of
\* that function's name; a function without conditions gets neither.
C19_LogicNodesPerFunction ==
    \A t \in Threads :
        Returned(t, "python") =>
            LET functions == FunctionsOf(t)
                defs == collect_functions(TreeOf(t))
            IN  \A k \in 1..Len(functions) :
                    (Len(FunctionIds(functions[k])) = 3)
                    <=> \E i \in 1..Len(defs) :
                           /\ defs[i].name = functions[k].name
                           /\ HasOwnCondition(defs[i].node)

\* a returned graph of two functions, one with a condition and one without,
\* whose diagram gives the one without a _LOGIC and a _RETURN node
C19_LogicNodeWithoutCondition ==
    \E t \in Threads :
        /\ Returned(t, "python")
        /\ LET functions == FunctionsOf(t)
               defs == collect_functions(TreeOf(t))
           IN  \E k \in 1..Len(functions) :
                  /\ Len(FunctionIds(functions[k])) = 3
                  /\ \A i \in 1..Len(defs) :
                        defs[i].name = functions[k].name => ~HasOwnCondition(defs[i].node)

\* a file with one function gives that function _LOGIC and _RETURN exactly
\* when its body creates a condition node
LogicNodesOfSingleFunction ==
    \A t \in Threads :
        (Returned(t, "python") /\ Len(collect_functions(TreeOf(t))) = 1) =>
            LET functions == FunctionsOf(t) IN
            /\ Len(functions) = 1
            /\ (Len(FunctionIds(functions[1])) = 3)
               <=> HasOwnCondition(collect_functions(TreeOf(t))[1].node)

\* the identifier a function's solid path leaves it by
ExitOf(func) ==
    IF func.has_conditions THEN func.safe_name \o <<"_", "R", "E", "T", "U", "R", "N">>
    ELSE func.safe_name

\* C20: with at least one function, the function-flow diagram's solid
\* connectors join MAIN to the first function, each function (its _RETURN
\* node when it has one) to the next, and the last to END, so that every
\* function's node is on a solid path from MAIN to END.
C20_MainToEndChain ==
    \A t \in Threads :
        (Returned(t, "python") /\ FunctionsOf(t) # <<>>) =>
            LET functions == FunctionsOf(t)
                n == Len(functions)
                solid == Range(SolidConnectors(functions))
                connectors == {[from |-> c[1], to |-> c[2]] : c \in solid}
            IN  /\ <<<<"M", "A", "I", "N">>, functions[1].safe_name>> \in solid
                /\ \A k \in 1..(n - 1) : <<ExitOf(functions[k]), functions[k + 1].safe_name>> \in solid
                /\ <<ExitOf(functions[n]), <<"E", "N", "D">>>> \in solid
                /\ \A k \in 1..n :
                      /\ functions[k].safe_name \in ReachableFrom({<<"M", "A", "I", "N">>}, connectors)
                      /\ <<"E", "N", "D">> \in ReachableFrom({functions[k].safe_name}, connectors)

\* a returned graph of two functions whose diagram has no solid connector
\* into the second
C20_SecondFunctionUnwired ==
    \E t \in Threads :
        /\ Returned(t, "python")
        /\ Len(FunctionsOf(t)) = 2
        /\ FunctionsOf(t)[2].safe_name
              \notin ReachableFrom({<<"M", "A", "I", "N">>},
                                   {[from |-> c[1], to |-> c[2]] :
                                       c \in Range(SolidConnectors(FunctionsOf(t)))})

\* with exactly one function (not named like a synthetic node) the chain is whole
ChainOfSingleFunction ==
    \A t \in Threads :
        (Returned(t, "python") /\ Len(FunctionsOf(t)) = 1) =>
            LET functions == FunctionsOf(t)
                solid == Range(SolidConnectors(functions))
            IN  /\ <<<<"M", "A", "I", "N">>, functions[1].safe_name>> \in solid
                /\ <<ExitOf(functions[1]), <<"E", "N", "D">>>> \in solid
-----------------------------------------------------------------------------
(* Claims about the sequential view, the line scanners, the parsers'
   lifecycle and the detailed diagram *)

\* the graph has no function definition: no node of kind function labelled
\* as the builders label a definition
NoFunctionDefinitions(nodes) ==
    ~\E i \in 1..Len(nodes) :
        nodes[i].type = "function" /\ StartsWith(nodes[i].label, <<"F", "u", "n", "c", "t", "i", "o", "n", ":", " ">>)

\* a meaningful node, as the sequential view is described: of kind
\* condition or function, or labelled with an important keyword
Meaningful(node) ==
    \/ node.type \in {"condition", "function"}
    \/ \E pattern \in important_patterns : Contains(Lower(node.label), pattern)

\* the chain START -> STEP1 -> ... -> STEPk -> END, as pairs of identifiers
Chain(k) ==
    [j \in 1..(k + 1) |->
        <<IF j = 1 THEN <<"S", "T", "A", "R", "T">> ELSE StepId(j - 1),
          IF j = k + 1 THEN <<"E", "N", "D">> ELSE StepId(j)>>]

\* the first n elements of seq, all of them when it has fewer
Prefix(seq, n) == SubSeq(seq, 1, IF Len(seq) < n THEN Len(seq) ELSE n)

\* C21: for a graph without function definitions the function-flow
\* rendering is the sequential view: its steps STEP1..STEPk are the first
\* k = min(5, number of meaningful nodes) meaningful nodes in graph order,
\* and its connectors are exactly START -> STEP1 -> ... -> STEPk -> END.
C21_SequentialView ==
    \A t \in Threads :
        (ReturnedAny(t) /\ NoFunctionDefinitions(NodesOf(ret[t]))) =>
            LET nodes == NodesOf(ret[t])
                steps == Prefix(SelectSeq(nodes, Meaningful), 5)
            IN  /\ generate_function_flow_mermaid(nodes, hashseed[Top(t).self])
                      = generate_simple_sequential_flow(nodes)
                /\ SequentialSteps(nodes) = steps
                /\ SequentialConnectors(nodes) = Chain(Len(steps))

\* a graph without function definitions has been returned whose condition
\* node is not among the steps of the sequential view, while fewer than 5
\* steps are shown
C21_ConditionNotAStep ==
    \E t \in Threads :
        /\ ReturnedAny(t)
        /\ NoFunctionDefinitions(NodesOf(ret[t]))
        /\ LET nodes == NodesOf(ret[t])
               steps == SequentialSteps(nodes)
           IN  /\ Len(steps) < 5
               /\ \E i \in 1..Len(nodes) :
                     /\ nodes[i].type = "condition"
                     /\ \A k \in 1..Len(steps) : steps[k] # nodes[i]

\* the steps shown are the first 5 of the nodes is_meaningful_node accepts,
\* and the connectors are one chain over them from START to END
SequentialViewIsOneChain ==
    \A t \in Threads :
        (ReturnedAny(t) /\ NoFunctionDefinitions(NodesOf(ret[t]))) =>
            LET nodes == NodesOf(ret[t])
                steps == Prefix(SelectSeq(nodes, is_meaningful_node), 5)
            IN  /\ generate_function_flow_mermaid(nodes, hashseed[Top(t).self])
                      = generate_simple_sequential_flow(nodes)
                /\ SequentialSteps(nodes) = steps
                /\ SequentialConnectors(nodes) = Chain(Len(steps))

\* a returned graph with more than 5 meaningful nodes and no function
\* definition
SequentialViewCutShort ==
    \E t \in Threads :
        /\ ReturnedAny(t)
        /\ NoFunctionDefinitions(NodesOf(ret[t]))
        /\ Len(SelectSeq(NodesOf(ret[t]), is_meaningful_node)) > 5

\* the nodes of the graphs the parsers have returned
ReturnedNodes == UNION {Range(NodesOf(ret[t])) : t \in {u \in Threads : ReturnedAny(u)}}

\* the label carries a word of the skip list
HasSkipWord(node) == \E pattern \in skip_patterns : Contains(Lower(node.label), pattern)

\* C22: a node is meaningful for the sequential view whenever its kind is
\* condition or function or its label contains an important keyword (try
\* block, exception, return, call:, if:, for:, while:); every condition
\* node is meaningful whatever its condition's text.
C22_MeaningfulNodes ==
    \A node \in ReturnedNodes : Meaningful(node) => is_meaningful_node(node)

\* a returned graph has a condition node that is_meaningful_node rejects
C22_ConditionNotMeaningful ==
    \E node \in ReturnedNodes : node.type = "condition" /\ ~is_meaningful_node(node)

\* is_meaningful_node accepts exactly the nodes of kind condition or
\* function, or labelled with an important keyword, whose label has no
\* word of the skip list
MeaningfulWithoutSkipWord ==
    \A node \in ReturnedNodes :
        is_meaningful_node(node) <=> (Meaningful(node) /\ ~HasSkipWord(node))

\* the rules of the line scanners, in the order described
Rules == <<"function", "if", "for", "while", "call", "return">>

\* the line scanner looks at the line: it is neither blank nor a comment
Scanned(l) ==
    LET line == Strip(l.text) IN
    line # <<>> /\ ~StartsWith(line, <<"/", "/">>) /\ ~StartsWith(line, <<"/", "*">>)

\* line l matches the rule, in the language's scanner
MatchesRule(language, l, rule) ==
    LET line == Strip(l.text)
        keyword == StartsWith(line, <<"i", "f">>) \/ StartsWith(line, <<"f", "o", "r">>) \/ StartsWith(line, <<"w", "h", "i", "l", "e">>)
    IN  CASE rule = "function" -> IF language = "cpp" THEN l.cpp_def ELSE l.ts_def
          [] rule = "if" -> StartsWith(line, <<"i", "f">>)
          [] rule = "for" -> StartsWith(line, <<"f", "o", "r">>)
          [] rule = "while" -> StartsWith(line, <<"w", "h", "i", "l", "e">>)
          [] rule = "call" -> IF language = "cpp" THEN l.cpp_call ELSE l.ts_call /\ ~keyword
          [] rule = "return" -> StartsWith(line, <<"r", "e", "t", "u", "r", "n">>)

\* the lines of a text that are classified: looked at, and matching a rule
ClassifiedLines(language, lines) ==
    SelectSeq(lines, LAMBDA l :
        Scanned(l) /\ \E r \in 1..Len(Rules) : MatchesRule(language, l, Rules[r]))

\* the first rule, in the order of Rules, that the classified line l matches
FirstRule(language, l) ==
    Rules[CHOOSE r \in 1..Len(Rules) :
            /\ MatchesRule(language, l, Rules[r])
            /\ \A q \in 1..(r - 1) : ~MatchesRule(language, l, Rules[q])]

\* the kind of the node of a rule, and the text its label starts with
KindOfRule(rule) ==
    CASE rule \in {"function", "call"} -> "function"
      [] rule \in {"if", "for", "while"} -> "condition"
      [] rule = "return" -> "process"
LabelOfRule(rule) ==
    CASE rule = "function" -> <<"F", "u", "n", "c", "t", "i", "o", "n", ":", " ">>
      [] rule = "if" -> <<"I", "f", ":", " ">>
      [] rule = "for" -> <<"F", "o", "r", ":", " ">>
      [] rule = "while" -> <<"W", "h", "i", "l", "e", ":", " ">>
      [] rule = "call" -> <<"C", "a", "l", "l", ":", " ">>
      [] rule = "return" -> <<"R", "e", "t", "u", "r", "n">>

LineLanguages == {"cpp", "typescript"}

\* thread t's analyze_code holds the graph a line scanner returned
ReturnedScan(t) == \E language \in LineLanguages : Returned(t, language)

\* C23: the graph of a line scanner (CppParser, TypeScriptParser) is one
\* linear chain: a Start node, one node per classified line in source
\* order, of the kind of the first rule the line matches in the order
\* function signature, if, for, while, call, return, then an End node;
\* it has one edge less than nodes, the i-th unlabelled from node_(i-1)
\* to node_i, hence no branch, merge or back-edge.
C23_LinearChain ==
    \A t \in Threads :
        ReturnedScan(t) =>
            LET language == Top(t).language
                nodes == NodesOf(ret[t])
                edges == EdgesOf(ret[t])
                classified == ClassifiedLines(language, SplitLines(Top(t).code_content))
                n == Len(nodes)
            IN  /\ n = Len(classified) + 2
                /\ Numbered(nodes)
                /\ nodes[1].label = <<"S", "t", "a", "r", "t">> /\ nodes[1].type = "start"
                /\ nodes[n].label = <<"E", "n", "d">> /\ nodes[n].type = "end"
                /\ \A k \in 1..Len(classified) :
                      LET rule == FirstRule(language, classified[k]) IN
                      /\ nodes[k + 1].type = KindOfRule(rule)
                      /\ StartsWith(nodes[k + 1].label, LabelOfRule(rule))
                /\ Len(edges) = n - 1
                /\ \A i \in 1..(n - 1) : edges[i] = [from |-> nodes[i].id, to |-> nodes[i + 1].id]

\* the C++ scanner has returned the graph of two classified lines, one of
\* them matching both the call rule and the return rule
C23_LineOfSeveralRules ==
    \E t \in Threads :
        /\ Returned(t, "cpp")
        /\ LET classified == ClassifiedLines("cpp", SplitLines(Top(t).code_content)) IN
           /\ Len(classified) = 2
           /\ \E k \in 1..2 :
                 /\ MatchesRule("cpp", classified[k], "call")
                 /\ MatchesRule("cpp", classified[k], "return")

-----------------------------------------------------------------------------
(* One parser used for several parses, one after the other *)

MaxCalls == 2

\* the texts parsed, with the paths that choose their parser
ReusedTexts ==
    {[file_path |-> <<"t", "e", "m", "p", ".", "p", "y">>, code_content |-> src] :
        src \in {PySource(Module_MutualCalls), PySource(Module_ReturnValue),
                 PySource(Module_Script), PySource(SyntaxError)}}
    \cup {[file_path |-> path, code_content |-> ScannedSources[k]] :
            path \in {<<"a", ".", "c", "p", "p">>, <<"a", ".", "t", "s">>}, k \in 1..2}

\* the non-empty lists of at most n of these texts
RECURSIVE TextListsUpTo(_)
TextListsUpTo(n) ==
    IF n = 1 THEN {<<text>> : text \in ReusedTexts}
    ELSE LET shorter == TextListsUpTo(n - 1) IN
         shorter \cup {Append(texts, text) :
                          texts \in {x \in shorter : Len(x) = n - 1}, text \in ReusedTexts}

\* One thread analyses the texts of a list one after the other through one
\* CodeFlowApp (app 1), whose parsers are thus used again and again, and
\* then each text once more through a CodeFlowApp made for it (apps 2, 3,
\* ...), whose parsers are fresh.
InitReuse ==
    \E texts \in TextListsUpTo(MaxCalls) :
        LET n == Len(texts)
            call(a, k) == [op |-> "analyze_code", app |-> a,
                           file_path |-> texts[k].file_path,
                           code_content |-> texts[k].code_content]
        IN  /\ parsers = NewParsers(n + 1)
            /\ heap = NewHeap(n + 1)
            /\ stack = <<<<>>>>
            /\ ret = <<None>>
            /\ results = <<<<>>>>
            /\ todo = <<[k \in 1..(2 * n) |-> IF k <= n THEN call(1, k) ELSE call(k - n + 1, k - n)]>>
            /\ fs = NoFiles
            /\ hashseed = [a \in 1..(n + 1) |-> SomeSeed]
            /\ sched = [first |-> <<>>, running |-> 0, preemptions |-> 0]

NextReuse ==
    \/ \E t \in Threads : Request(t)
    \/ \E t \in Threads : analyze_code(t)
    \/ Builder

SpecReuse == InitReuse /\ [][NextReuse]_vars

\* the number of texts of the run, once all its calls have returned
TextsParsed == Len(results[1]) \div 2

\* C24: whatever parses a parser has made before (failed ones included),
\* a parse returns the graph a fresh parser returns for the text, and the
\* graphs returned earlier are not changed by later parses: when all calls
\* have returned, the answer of the k-th call through the reused parsers,
\* read then, is the answer of the same call through fresh parsers.
C24_ReusedParserAsFresh ==
    AllDone =>
        \A k \in 1..TextsParsed :
            WriteOut(results[1][k]) = WriteOut(results[1][TextsParsed + k])

\* two different graphs have been returned one after the other by one
\* parser
C24_TwoGraphsOfOneParser ==
    /\ AllDone
    /\ TextsParsed = 2
    /\ "flow_data" \in DOMAIN results[1][1]
    /\ "flow_data" \in DOMAIN results[1][2]
    /\ results[1][1].language = results[1][2].language
    /\ NodesOf(results[1][1].flow_data) # NodesOf(results[1][2].flow_data)

\* a graph has been returned by a parser whose parse before failed
C24_GraphAfterFailedParse ==
    /\ AllDone
    /\ TextsParsed = 2
    /\ "error" \in DOMAIN results[1][1]
    /\ "flow_data" \in DOMAIN results[1][2]

-----------------------------------------------------------------------------
(* The text of the detailed diagram, read line by line *)

\* the pieces of text a line of a diagram ends with
LineEnds ==
    {"\n", "])\n", "}\n", "]\n", "flowchart TD\n",
     "<classDef startEnd, process, condition, function>\n",
     " startEnd\n", " condition\n", " function\n", " process\n"}

\* the lines of a text
RECURSIVE LinesOf(_)
LinesOf(text) ==
    IF \A i \in 1..Len(text) : text[i] \notin LineEnds THEN <<>>
    ELSE LET end == CHOOSE i \in 1..Len(text) :
                        text[i] \in LineEnds /\ \A j \in 1..(i - 1) : text[j] \notin LineEnds
         IN  <<SubSeq(text, 1, end)>> \o LinesOf(SubSeq(text, end + 1, Len(text)))

StyleBlock == <<"<classDef startEnd, process, condition, function>\n">>

IsShapeLine(line) == line[1] = "    " /\ line[Len(line)] \in {"])\n", "}\n", "]\n"}
IsClassLine(line) == line[1] = "    class "
IsConnectorLine(line) == \E i \in 1..Len(line) : line[i] \in {" -->", " -.->"}

\* the delimiters of a node's shape, by its kind
ShapeOpen(type) ==
    IF type \in {"start", "end"} THEN "([" ELSE IF type = "condition" THEN "{" ELSE "["
ShapeClose(type) ==
    IF type \in {"start", "end"} THEN "])\n" ELSE IF type = "condition" THEN "}\n" ELSE "]\n"

\* the shape declaration of a node
ShapeOf(node) ==
    <<"    ">> \o make_safe_id(node.id) \o <<ShapeOpen(node.type)>>
    \o clean_label(node.label) \o <<ShapeClose(node.type)>>

\* the connector of an edge
ConnectorOf(edge) ==
    <<"    ">> \o make_safe_id(edge.from)
    \o <<IF "style" \in DOMAIN edge /\ edge.style = "dotted" THEN " -.->" ELSE " -->">>
    \o (IF "label" \in DOMAIN edge /\ edge.label # "" THEN <<"|", edge.label, "| ">> ELSE <<" ">>)
    \o make_safe_id(edge.to) \o <<"\n">>

\* the indexes of the lines of a kind
IndexesOf(lines, Kind(_)) == {i \in 1..Len(lines) : Kind(lines[i])}

\* C25: the detailed diagram has the style-class block once, before all
\* declarations; then one shape declaration per node, in node order, with
\* ([ ]) for start and end, { } for condition and [ ] for every other
\* kind; then one connector per edge, in edge order, -.-> for a dotted
\* edge and --> otherwise, with |label| exactly for a non-empty label.
C25_DetailedDiagram ==
    \A t \in Threads :
        ReturnedAny(t) =>
            LET nodes == NodesOf(ret[t])
                edges == EdgesOf(ret[t])
                lines == LinesOf(generate_detailed_mermaid(nodes, edges))
                shapes == SelectSeq(lines, IsShapeLine)
                connectors == SelectSeq(lines, IsConnectorLine)
            IN  /\ IndexesOf(lines, LAMBDA line : line = StyleBlock) = {2}
                /\ shapes = [i \in 1..Len(nodes) |-> ShapeOf(nodes[i])]
                /\ connectors = [i \in 1..Len(edges) |-> ConnectorOf(edges[i])]
                /\ \A i \in IndexesOf(lines, IsShapeLine) :
                      /\ i > 2
                      /\ \A j \in IndexesOf(lines, IsConnectorLine) : i < j
                /\ \A i \in 3..Len(lines) :
                      IsShapeLine(lines[i]) \/ IsClassLine(lines[i]) \/ IsConnectorLine(lines[i])

\* a graph with a condition node, a dotted edge and a labelled solid edge
\* has been returned
C25_GraphOfEveryShape ==
    \E t \in Threads :
        /\ ReturnedAny(t)
        /\ LET nodes == NodesOf(ret[t])
               edges == EdgesOf(ret[t])
           IN  /\ \E i \in 1..Len(nodes) : nodes[i].type = "condition"
               /\ \E i \in 1..Len(nodes) : nodes[i].type = "function"
               /\ \E i \in 1..Len(edges) : "style" \in DOMAIN edges[i] /\ edges[i].style = "dotted"
               /\ \E i \in 1..Len(edges) : "style" \notin DOMAIN edges[i] /\ "label" \in DOMAIN edges[i]
               /\ \E i \in 1..Len(edges) : DOMAIN edges[i] = {"from", "to"}

-----------------------------------------------------------------------------
(* The line scanners on their own *)

\* a C++ or TypeScript file analysed through the route, or a text analysed
\* by a call of analyze_code
ScanScenarios ==
    {Scenario(<<AnalyzeCall([file_path |-> path])>>, OneFile(path, src), SomeSeed) :
        path \in {<<"a", ".", "c", "p", "p">>, <<"a", ".", "t", "s">>}, src \in LineSources(MaxLines)}
    \cup {Scenario(<<AnalyzeCodeCall(path, src)>>, NoFiles, SomeSeed) :
            path \in {<<"a", ".", "c", "p", "p">>, <<"a", ".", "t", "s">>, <<"a", ".", "h">>}, src \in SampleLineSources}

InitScan == \E sc \in ScanScenarios : InitScenario(sc)

NextScan ==
    \/ \E t \in Threads : Request(t)
    \/ \E t \in Threads : analyze(t)
    \/ \E t \in Threads : analyze_code(t)
    \/ \E t \in Threads : line_parse(t)
    \/ \E t \in Threads : parse_lines(t)
    \/ \E t \in Threads : create_node(t)

SpecScan == InitScan /\ [][NextScan]_vars
=============================================================================
